---- MODULE Spec2Model ----
(***************************************************************************)
(* Offline-first synchronisation subsystem of the business/article app:    *)
(* src/src/database/database.js.  The module-level variables of that file  *)
(* are the state; every exported operation and every callback is a task    *)
(* that runs from one await to the next in one step (single-threaded       *)
(* cooperative scheduling).                                                *)
(***************************************************************************)
EXTENDS Integers, Sequences, FiniteSets, TLC

\* ------------------------------------------------------------ bounds
NumUrls == 2          \* length of config.couchdb.possibleUrls
MaxTasks == 2         \* operations in flight at once
MaxSessions == 4      \* replication sessions alive at once (two per startSync)
MaxDbs == 2           \* Local Store instances ever created
MaxNotif == 1         \* connectivity notifications not yet delivered
MaxDocs == 1          \* documents of the persisted businesses snapshot
MaxPending == 1       \* timers of one kind set and not yet fired
MaxNames == 2         \* values a document's name can take

\* ------------------------------------------------------------ values
NoUrl == 0
\* COUCHDB_CONFIG.possibleUrls: the candidates in their configured order
possibleUrls == [i \in 1..NumUrls |-> i]

NoDb == 0
Colls == {"businesses", "articles"}
NoSession == [coll |-> "none", db |-> 0, chk |-> "none", err |-> FALSE]

\* the callbacks the code hands to setTimeout: the flush of a collection of a
\* Local Store instance (database.js 283-312, after 1000 ms) and forceSyncNow
\* (database.js 591-598, after 500 ms)
ForceTimer == [kind |-> "force", coll |-> "none", db |-> 0]
FlushTimer(c, d) == [kind |-> "flush", coll |-> c, db |-> d]
TimerKinds == {ForceTimer} \cup {FlushTimer(c, d) : c \in Colls, d \in 1..MaxDbs}

\* what a fetch can produce: a response with ok status, a response with
\* another status, or a rejection (network error, abort on timeout)
Outcomes == {"ok", "status", "error"}

VARIABLES
  net,                  \* the device's connectivity (NetInfo's state)
  notifQ,               \* notifications NetInfo has not yet delivered
  listeners,            \* NetInfo.addEventListener callbacks: the db each closes over
  isOnline,             \* let isOnline
  syncEnabled,          \* let syncEnabled
  currentUrl,           \* COUCHDB_CONFIG.currentUrl
  dbInstance,           \* let dbInstance
  businessReplication,  \* let businessReplication (0 = null, else a session)
  articleReplication,   \* let articleReplication
  sessions,             \* replication sessions created and not cancelled
  storage,              \* AsyncStorage: key -> value
  rxdb,                 \* Local Store instances: db -> collection -> documents
  timers,               \* setTimeout callbacks set and not yet run
  tasks                 \* operations in flight: their position and locals

vars == <<net, notifQ, listeners, isOnline, syncEnabled, currentUrl, dbInstance,
          businessReplication, articleReplication, sessions, storage, rxdb, timers,
          tasks>>

netVars == <<net, notifQ>>
syncVars == <<businessReplication, articleReplication, sessions>>

\* ------------------------------------------------------------ tasks
Idle == [op |-> "idle", pc |-> "idle", ret |-> <<>>, db |-> NoDb, saved |-> NoUrl,
         idx |-> 0, probes |-> <<>>, url |-> NoUrl, r1 |-> "none", res |-> "none",
         resp |-> "none", coll |-> "none", arg |-> <<>>, snap |-> <<>>, snap2 |-> <<>>,
         alone |-> FALSE, log |-> <<>>]

TaskIds == 1..MaxTasks
FreeTask == IF \E t \in TaskIds : tasks[t].op = "idle"
            THEN CHOOSE t \in TaskIds : tasks[t].op = "idle" /\ \A u \in TaskIds : tasks[u].op = "idle" => t <= u
            ELSE 0

\* A new task of operation `op`, its promise settling at label "done"
NewTask(op) == [Idle EXCEPT !.op = op, !.ret = <<"done">>]

\* return v (a status) from the function the task is in, to the caller's label
\* (the locals of a finished operation are gone: only its result is kept)
Return(tk, v) ==
  IF Head(tk.ret) = "done"
  THEN [Idle EXCEPT !.op = tk.op, !.pc = "done", !.res = v]
  ELSE [tk EXCEPT !.pc = Head(tk.ret), !.ret = Tail(tk.ret), !.res = v, !.resp = "none"]

\* the locals of a detectCouchDBUrl call that has returned are dead once the
\* caller has read its result
Forget(tk) == [tk EXCEPT !.saved = NoUrl, !.idx = 0, !.probes = <<>>, !.url = NoUrl]

\* call a function: remember where the caller goes on
Push(tk, label) == [tk EXCEPT !.ret = <<label>> \o tk.ret]

\* a fetch is sent: its response is pending
Sent(tk, label) == [tk EXCEPT !.pc = label, !.resp = "pending"]

\* ------------------------------------------------------------ AsyncStorage
COUCHDB_URL_KEY == "couchdb_url"
BUSINESSES_KEY == "businesses_data"
ARTICLES_KEY == "articles_data"

\* ------------------------------------------------------------ testCouchDBUrl
\* a probe whose catch rethrows instead of answering false
testCouchDBUrl_Rethrows(outcome) ==
  CASE outcome = "ok" -> "true"
    [] outcome = "status" -> "false"
    [] OTHER -> "throw"

\* database.js 70-103: true on response.ok, false on any other status, and the
\* catch turns every rejection (abort on timeout included) into false
testCouchDBUrl(outcome) ==
  CASE outcome = "ok" -> "true"
    [] outcome = "status" -> "false"
    [] OTHER -> "false"

\* ------------------------------------------------------------ detectCouchDBUrl
\* database.js 40-44: the call starts by reading the persisted URL
DetectEntry(tk) ==
  [tk EXCEPT !.pc = "d_get", !.saved = NoUrl, !.idx = 0, !.probes = <<>>,
             !.url = NoUrl, !.resp = "none"]

\* a loop that walks the candidates from the last to the first
ProbeCandidate_Reversed(tk, i) ==
  IF i <= NumUrls
  THEN [Sent(tk, "d_probe") EXCEPT !.idx = i,
                                   !.probes = Append(tk.probes, possibleUrls[NumUrls + 1 - i])]
  ELSE Return(Forget(tk), "value")

\* database.js 54-56: probe candidate i, or line 65-66 when the list is exhausted
ProbeCandidate(tk, i) ==
  IF i <= NumUrls
  THEN [Sent(tk, "d_probe") EXCEPT !.idx = i, !.probes = Append(tk.probes, possibleUrls[i])]
  ELSE Return(Forget(tk), "value")

\* a discovery that goes to the candidates without trying the saved URL
FirstProbe_CandidatesFirst(tk) ==
  ProbeCandidate(tk, 1)

\* database.js 47: `savedUrl && await testCouchDBUrl(savedUrl)`: a saved URL is
\* probed, without one the loop over the candidates starts
FirstProbe(tk) ==
  IF tk.saved # NoUrl
  THEN [Sent(tk, "d_probeSaved") EXCEPT !.probes = <<tk.saved>>]
  ELSE ProbeCandidate(tk, 1)

\* database.js 44-47: getItem resolved
DetectGot(t) ==
  /\ tasks[t].pc = "d_get"
  /\ LET saved == storage[COUCHDB_URL_KEY]
     IN tasks' = [tasks EXCEPT ![t] = FirstProbe([tasks[t] EXCEPT !.saved = saved])]
  /\ UNCHANGED <<netVars, listeners, isOnline, syncEnabled, timers, currentUrl, dbInstance,
                 syncVars, storage, rxdb>>

\* database.js 47-51: the probe of the saved URL answered or failed
DetectSavedProbed(t) ==
  /\ tasks[t].pc = "d_probeSaved"
  /\ tasks[t].resp \in Outcomes
  /\ LET tk == tasks[t]
         r == testCouchDBUrl(tk.resp)
     IN CASE r = "true" ->
               /\ currentUrl' = tk.saved
               /\ tasks' = [tasks EXCEPT ![t] = [Return(Forget(tk), "value") EXCEPT !.url = tk.saved]]
          [] r = "false" ->
               /\ tasks' = [tasks EXCEPT ![t] = ProbeCandidate(tk, 1)]
               /\ UNCHANGED currentUrl
          [] OTHER ->
               /\ tasks' = [tasks EXCEPT ![t] = Return(Forget(tk), "throw")]
               /\ UNCHANGED currentUrl
  /\ UNCHANGED <<netVars, listeners, isOnline, syncEnabled, timers, dbInstance,
                 syncVars, storage, rxdb>>

\* database.js 54-63: the probe of candidate idx answered or failed
DetectProbed(t) ==
  /\ tasks[t].pc = "d_probe"
  /\ tasks[t].resp \in Outcomes
  /\ LET tk == tasks[t]
         r == testCouchDBUrl(tk.resp)
     IN CASE r = "true" ->
               /\ currentUrl' = possibleUrls[tk.idx]
               /\ tasks' = [tasks EXCEPT ![t] = [tk EXCEPT !.pc = "d_set", !.resp = "none"]]
          [] r = "false" ->
               /\ tasks' = [tasks EXCEPT ![t] = ProbeCandidate(tk, tk.idx + 1)]
               /\ UNCHANGED currentUrl
          [] OTHER ->
               /\ tasks' = [tasks EXCEPT ![t] = Return(Forget(tk), "throw")]
               /\ UNCHANGED currentUrl
  /\ UNCHANGED <<netVars, listeners, isOnline, syncEnabled, timers, dbInstance,
                 syncVars, storage, rxdb>>

\* database.js 60-61: setItem resolved, the candidate is returned
DetectSaved(t) ==
  /\ tasks[t].pc = "d_set"
  /\ LET tk == tasks[t]
         url == possibleUrls[tk.idx]
     IN /\ storage' = [storage EXCEPT ![COUCHDB_URL_KEY] = url]
        /\ tasks' = [tasks EXCEPT ![t] = [Return(Forget(tk), "value") EXCEPT !.url = url]]
  /\ UNCHANGED <<netVars, listeners, isOnline, syncEnabled, timers, currentUrl, dbInstance,
                 syncVars, rxdb>>

\* ------------------------------------------------------------ stopSync
SyncState == [sessions |-> sessions, b |-> businessReplication, a |-> articleReplication]

\* replication.cancel() followed by the assignment of null
Cancel(s, which) ==
  IF which = "b"
  THEN [s EXCEPT !.sessions[s.b] = NoSession, !.b = 0]
  ELSE [s EXCEPT !.sessions[s.a] = NoSession, !.a = 0]

\* a stopSync that is done after the first session it cancels
StopSync_ElseIf(s) ==
  IF s.b # 0 THEN Cancel(s, "b")
  ELSE IF s.a # 0 THEN Cancel(s, "a")
  ELSE s

\* database.js 325-341
StopSync(s) ==
  LET s1 == IF s.b # 0 THEN Cancel(s, "b") ELSE s
  IN IF s1.a # 0 THEN Cancel(s1, "a") ELSE s1

SetSync(s) ==
  /\ sessions' = s.sessions
  /\ businessReplication' = s.b
  /\ articleReplication' = s.a

\* ------------------------------------------------------------ startSync
FreeSlots(ss) == {i \in 1..MaxSessions : ss[i] = NoSession}
MinOf(S) == CHOOSE i \in S : \A j \in S : i <= j

\* database.js 242-270: replicateCouchDB for both collections, assigned to the
\* two module variables (nothing is cancelled here)
CreateSessions(s, db, chkB, chkA) ==
  LET ib == MinOf(FreeSlots(s.sessions))
      ia == MinOf(FreeSlots(s.sessions) \ {ib})
  IN [sessions |-> [s.sessions EXCEPT
                      ![ib] = [coll |-> "businesses", db |-> db, chk |-> chkB, err |-> FALSE],
                      ![ia] = [coll |-> "articles", db |-> db, chk |-> chkA, err |-> FALSE]],
      b |-> ib, a |-> ia]

\* a check that looks at the businesses response only
ExistenceVerdict_BusinessOnly(okB, okA) ==
  IF okB # "ok" THEN "throw" ELSE "start"

\* database.js 224-232: both responses are in; which of them lets replication start
ExistenceVerdict(okB, okA) ==
  IF okB # "ok" THEN "throw"
  ELSE IF okA # "ok" THEN "throw"
  ELSE "start"

\* database.js 186-221: the guards, stopSync(), and the first existence check is
\* sent.  tk already holds the caller's return label.
StartSyncCall(tk, db, s) ==
  IF ~isOnline \/ ~syncEnabled THEN [task |-> Return(Forget(tk), "returned"), sync |-> s]
  ELSE IF currentUrl = NoUrl THEN [task |-> Return(Forget(tk), "returned"), sync |-> s]
  ELSE [task |-> [Sent(Forget(tk), "s_chkB") EXCEPT !.db = db, !.r1 = "none"],
        sync |-> StopSync(s)]

\* database.js 221-222: the GET of the businesses collection settled; a rejection
\* is rethrown (235-238, 318-321), a response of any status lets the second GET go
StartSyncBusinessChecked(t) ==
  /\ tasks[t].pc = "s_chkB"
  /\ tasks[t].resp \in Outcomes
  /\ LET tk == tasks[t]
     IN tasks' = [tasks EXCEPT ![t] =
          IF tk.resp = "error" THEN Return(tk, "throw")
          ELSE [Sent(tk, "s_chkA") EXCEPT !.r1 = tk.resp]]
  /\ UNCHANGED <<netVars, listeners, isOnline, syncEnabled, timers, currentUrl, dbInstance,
                 syncVars, storage, rxdb>>

\* database.js 222-316: the GET of the articles collection settled
StartSyncArticleChecked(t) ==
  /\ tasks[t].pc = "s_chkA"
  /\ tasks[t].resp \in Outcomes
  /\ LET tk == tasks[t]
         verdict == IF tk.resp = "error" THEN "throw" ELSE ExistenceVerdict(tk.r1, tk.resp)
     IN IF verdict = "start"
        THEN /\ Cardinality(FreeSlots(sessions)) >= 2
             /\ SetSync(CreateSessions(SyncState, tk.db, tk.r1, tk.resp))
             /\ tasks' = [tasks EXCEPT ![t] = Return(tk, "started")]
        ELSE /\ tasks' = [tasks EXCEPT ![t] = Return(tk, "throw")]
             /\ UNCHANGED syncVars
  /\ UNCHANGED <<netVars, listeners, isOnline, syncEnabled, timers, currentUrl, dbInstance,
                 storage, rxdb>>

\* ------------------------------------------------------------ Local Store
NoStore == [status |-> "none", businesses |-> {}, articles |-> {}]
EmptyStore == [status |-> "open", businesses |-> {}, articles |-> {}]
NextDb == Cardinality({d \in 1..MaxDbs : rxdb[d].status # "none"}) + 1

\* part_001 5-9, 17, 24-28, 44: the primary key is required; a record that
\* has none (written here as id 0) is not a document of the schema
Valid(doc) == doc.id >= 1

\* collection.insert: a document whose primary key is present, or that is not
\* valid for the schema, is rejected
Insert(coll, doc) ==
  IF ~Valid(doc) \/ \E d \in coll : d.id = doc.id THEN coll ELSE coll \cup {doc}

\* a load that gives up at the first record whose insert fails
RECURSIVE InsertAll_Abort(_, _)
InsertAll_Abort(coll, docs) ==
  IF docs = <<>> \/ Insert(coll, Head(docs)) = coll THEN coll
  ELSE InsertAll_Abort(Insert(coll, Head(docs)), Tail(docs))

\* database.js 350-358, 364-372: every record of the snapshot is inserted in
\* turn, an insert that fails is logged or swallowed and the loop goes on
RECURSIVE InsertAll(_, _)
InsertAll(coll, docs) ==
  IF docs = <<>> THEN coll ELSE InsertAll(Insert(coll, Head(docs)), Tail(docs))

\* a parse that yields the empty list whatever was stored
Snapshot_Empty(key) == <<>>

\* database.js 347-348, 361-362: getItem, then JSON.parse or [] for null
Snapshot(key) == IF storage[key].present THEN storage[key].docs ELSE <<>>

\* ------------------------------------------------------------ initDatabase
\* database.js 105-116: the instance if there is one, else createRxDatabase
InitCall(tk) ==
  IF dbInstance # NoDb
  THEN [Return(tk, "value") EXCEPT !.db = dbInstance]
  ELSE [tk EXCEPT !.pc = "i_create", !.db = NoDb]

\* database.js 111-125, 347: database and collections exist, the businesses
\* snapshot is being read
InitCreated(t) ==
  /\ tasks[t].pc = "i_create"
  /\ NextDb <= MaxDbs
  /\ rxdb' = [rxdb EXCEPT ![NextDb] = EmptyStore]
  /\ tasks' = [tasks EXCEPT ![t] = [tasks[t] EXCEPT !.pc = "i_loadB", !.db = NextDb]]
  /\ UNCHANGED <<netVars, listeners, isOnline, syncEnabled, timers, currentUrl, dbInstance,
                 syncVars, storage>>

\* database.js 347-361
InitLoadedBusinesses(t) ==
  /\ tasks[t].pc = "i_loadB"
  /\ LET db == tasks[t].db
     IN rxdb' = [rxdb EXCEPT ![db].businesses = InsertAll(@, Snapshot(BUSINESSES_KEY))]
  /\ tasks' = [tasks EXCEPT ![t] = [tasks[t] EXCEPT !.pc = "i_loadA"]]
  /\ UNCHANGED <<netVars, listeners, isOnline, syncEnabled, timers, currentUrl, dbInstance,
                 syncVars, storage>>

\* database.js 361-374, 147: the articles are loaded, NetInfo.fetch() is asked
InitLoadedArticles(t) ==
  /\ tasks[t].pc = "i_loadA"
  /\ LET db == tasks[t].db
     IN rxdb' = [rxdb EXCEPT ![db].articles = InsertAll(@, Snapshot(ARTICLES_KEY))]
  /\ tasks' = [tasks EXCEPT ![t] = [tasks[t] EXCEPT !.pc = "i_fetch"]]
  /\ UNCHANGED <<netVars, listeners, isOnline, syncEnabled, timers, currentUrl, dbInstance,
                 syncVars, storage>>

\* database.js 162-179 registered (or not, when the try of 145-183 was left by
\* an exception), then 133-136
\* NetInfo calls a new subscriber with the latest state soon after it subscribes.
InitFinish(tk, register) ==
  /\ IF register
     THEN /\ Len(notifQ) < MaxNotif
          /\ listeners' = Append(listeners, tk.db)
          /\ notifQ' = Append(notifQ, [connected |-> net, edge |-> FALSE])
     ELSE UNCHANGED <<listeners, notifQ>>
  /\ dbInstance' = tk.db

\* database.js 147-159: the initial network status
InitFetched(t) ==
  /\ tasks[t].pc = "i_fetch"
  /\ isOnline' = net
  /\ LET tk == tasks[t]
     IN IF net /\ syncEnabled
        THEN /\ tasks' = [tasks EXCEPT ![t] = DetectEntry(Push(tk, "i_detected"))]
             /\ UNCHANGED <<listeners, dbInstance, notifQ>>
        ELSE /\ InitFinish(tk, TRUE)
             /\ tasks' = [tasks EXCEPT ![t] = Return(tk, "value")]
  /\ UNCHANGED <<net, syncEnabled, timers, currentUrl, syncVars, storage, rxdb>>

\* database.js 153-158: detection returned
InitDetected(t) ==
  /\ tasks[t].pc = "i_detected"
  /\ LET tk == tasks[t]
     IN IF tk.res = "throw"
        THEN /\ InitFinish(tk, FALSE)
             /\ tasks' = [tasks EXCEPT ![t] = Return(Forget(tk), "value")]
             /\ UNCHANGED syncVars
        ELSE IF tk.url # NoUrl
        THEN LET c == StartSyncCall(Push(tk, "i_synced"), tk.db, SyncState)
             IN /\ tasks' = [tasks EXCEPT ![t] = c.task]
                /\ SetSync(c.sync)
                /\ UNCHANGED <<listeners, dbInstance, notifQ>>
        ELSE /\ InitFinish(tk, TRUE)
             /\ tasks' = [tasks EXCEPT ![t] = Return(Forget(tk), "value")]
             /\ UNCHANGED syncVars
  /\ UNCHANGED <<net, isOnline, syncEnabled, timers, currentUrl, storage, rxdb>>

\* database.js 155, 180-182: startSync returned, or threw into the catch of
\* setupNetworkMonitoring, which skips the registration of the listener
InitSynced(t) ==
  /\ tasks[t].pc = "i_synced"
  /\ LET tk == tasks[t]
     IN /\ InitFinish(tk, tk.res # "throw")
        /\ tasks' = [tasks EXCEPT ![t] = Return(tk, "value")]
  /\ UNCHANGED <<net, isOnline, syncEnabled, timers, currentUrl, syncVars, storage, rxdb>>

InitInFlight == \E t \in TaskIds : tasks[t].op = "init" /\ tasks[t].pc # "done"

\* a caller (a screen, a CRUD operation) calls initDatabase()
CallInitDatabase ==
  /\ FreeTask # 0
  /\ tasks' = [tasks EXCEPT ![FreeTask] = InitCall(NewTask("init"))]
  /\ UNCHANGED <<netVars, listeners, isOnline, syncEnabled, timers, currentUrl, dbInstance,
                 syncVars, storage, rxdb>>

\* ------------------------------------------------------------ connectivity listener
\* database.js 162-179, one callback run on one notification.  st holds the
\* module state the callback reads and writes; st.ok is FALSE when the bound on
\* tasks in flight leaves no room for the detection it starts.
Listener(st, db, connected) ==
  LET wasOffline == ~st.isOnline
      free == {t \in TaskIds : st.tasks[t].op = "idle"}
  IN IF wasOffline /\ connected /\ syncEnabled
     THEN IF free = {}
          THEN [st EXCEPT !.ok = FALSE]
          ELSE [st EXCEPT !.isOnline = connected,
                          !.tasks[MinOf(free)] =
                             [DetectEntry(Push(NewTask("listener"), "l_detected")) EXCEPT !.db = db]]
     ELSE IF ~connected
     THEN [st EXCEPT !.isOnline = connected, !.sync = StopSync(st.sync)]
     ELSE [st EXCEPT !.isOnline = connected]

\* NetInfo calls every registered callback with the new state, in turn
RECURSIVE RunListeners(_, _, _)
RunListeners(ls, st, connected) ==
  IF ls = <<>> THEN st
  ELSE RunListeners(Tail(ls), Listener(st, Head(ls), connected), connected)

\* NetInfo delivers the oldest pending notification
Notify ==
  /\ notifQ # <<>>
  /\ LET n == Head(notifQ)
         st == RunListeners(listeners,
                 [isOnline |-> isOnline, sync |-> SyncState, tasks |-> tasks, ok |-> TRUE],
                 n.connected)
     IN /\ st.ok
        /\ isOnline' = st.isOnline
        /\ SetSync(st.sync)
        /\ tasks' = st.tasks
  /\ notifQ' = Tail(notifQ)
  /\ UNCHANGED <<net, listeners, syncEnabled, timers, currentUrl, dbInstance, storage, rxdb>>

\* database.js 170-174: detectCouchDBUrl().then(...)
ListenerDetected(t) ==
  /\ tasks[t].pc = "l_detected"
  /\ LET tk == tasks[t]
     IN IF tk.res # "throw" /\ tk.url # NoUrl
        THEN LET c == StartSyncCall(Push(tk, "l_synced"), tk.db, SyncState)
             IN /\ tasks' = [tasks EXCEPT ![t] = c.task]
                /\ SetSync(c.sync)
        ELSE /\ tasks' = [tasks EXCEPT ![t] =
                   Return(tk, IF tk.res = "throw" THEN "rejected" ELSE "value")]
             /\ UNCHANGED syncVars
  /\ UNCHANGED <<netVars, listeners, isOnline, syncEnabled, timers, currentUrl, dbInstance,
                 storage, rxdb>>

\* database.js 172: the promise of startSync(db) is dropped; when it rejects
\* nothing handles the rejection
Dropped(t) ==
  /\ tasks[t].pc \in {"l_synced", "e_synced"}
  /\ tasks' = [tasks EXCEPT ![t] =
       Return(tasks[t], IF tasks[t].res = "throw" THEN "rejected" ELSE "value")]
  /\ UNCHANGED <<netVars, listeners, isOnline, syncEnabled, timers, currentUrl, dbInstance,
                 syncVars, storage, rxdb>>

\* ------------------------------------------------------------ NetInfo, the remote
\* the device gains or loses connectivity; NetInfo queues a notification for
\* its subscribers
NetChange ==
  /\ net' = ~net
  /\ IF listeners # <<>>
     THEN /\ Len(notifQ) < MaxNotif
          /\ notifQ' = Append(notifQ, [connected |-> ~net, edge |-> TRUE])
     ELSE UNCHANGED notifQ
  /\ UNCHANGED <<listeners, isOnline, syncEnabled, timers, currentUrl, dbInstance,
                 syncVars, storage, rxdb, tasks>>

\* NetInfo reports the unchanged state once more (a detail of the connection
\* changed, or the platform repeats the event)
NetRepeat ==
  /\ listeners # <<>>
  /\ Len(notifQ) < MaxNotif
  /\ notifQ' = Append(notifQ, [connected |-> net, edge |-> FALSE])
  /\ UNCHANGED <<net, listeners, isOnline, syncEnabled, timers, currentUrl,
                 dbInstance, syncVars, storage, rxdb, tasks>>

\* a pending fetch settles: a response needs the device to be connected, a
\* rejection (network error, timeout) can come at any time
Respond(t) ==
  /\ tasks[t].resp = "pending"
  /\ \E o \in Outcomes :
       /\ o # "error" => net
       /\ tasks' = [tasks EXCEPT ![t].resp = o]
  /\ UNCHANGED <<netVars, listeners, isOnline, syncEnabled, timers, currentUrl, dbInstance,
                 syncVars, storage, rxdb>>

\* the settled promise of a finished operation is consumed by its caller
Reap(t) ==
  /\ tasks[t].pc = "done"
  /\ tasks' = [tasks EXCEPT ![t] = Idle]
  /\ UNCHANGED <<netVars, listeners, isOnline, syncEnabled, timers, currentUrl, dbInstance,
                 syncVars, storage, rxdb>>

\* ------------------------------------------------------------ forceSyncNow
\* database.js 777: const db = await initDatabase()
ForceGotUrl(tk) == InitCall(Push(Forget(tk), "f_gotdb"))

\* database.js 765-777, up to the first await that suspends
ForceSyncNowCall(tk) ==
  IF ~isOnline THEN Return(tk, "failure")
  ELSE IF currentUrl = NoUrl THEN DetectEntry(Push(tk, "f_detected"))
  ELSE ForceGotUrl(tk)

\* forceSyncNow() called by a screen
CallForceSyncNow ==
  /\ FreeTask # 0
  /\ tasks' = [tasks EXCEPT ![FreeTask] = ForceSyncNowCall(NewTask("force"))]
  /\ UNCHANGED <<netVars, listeners, isOnline, syncEnabled, timers, currentUrl, dbInstance,
                 syncVars, storage, rxdb>>

\* database.js 591-598: the timer deleteArticleWithSync set fires and calls
\* forceSyncNow()
TimerForce ==
  /\ timers[ForceTimer] > 0
  /\ FreeTask # 0
  /\ timers' = [timers EXCEPT ![ForceTimer] = @ - 1]
  /\ tasks' = [tasks EXCEPT ![FreeTask] = ForceSyncNowCall(NewTask("deleteSync"))]
  /\ UNCHANGED <<netVars, listeners, isOnline, syncEnabled, currentUrl, dbInstance,
                 syncVars, storage, rxdb>>

\* database.js 771-777
ForceDetected(t) ==
  /\ tasks[t].pc = "f_detected"
  /\ LET tk == tasks[t]
     IN tasks' = [tasks EXCEPT ![t] =
          IF tk.res = "throw" \/ tk.url = NoUrl THEN Return(tk, "failure")
          ELSE ForceGotUrl(tk)]
  /\ UNCHANGED <<netVars, listeners, isOnline, syncEnabled, timers, currentUrl, dbInstance,
                 syncVars, storage, rxdb>>

\* database.js 778: await startSync(db)
ForceGotDb(t) ==
  /\ tasks[t].pc = "f_gotdb"
  /\ LET tk == tasks[t]
         c == StartSyncCall(Push(tk, "f_synced"), tk.db, SyncState)
     IN /\ tasks' = [tasks EXCEPT ![t] = c.task]
        /\ SetSync(c.sync)
  /\ UNCHANGED <<netVars, listeners, isOnline, syncEnabled, timers, currentUrl, dbInstance,
                 storage, rxdb>>

\* database.js 779-783: success when startSync returned, the catch otherwise
ForceSynced(t) ==
  /\ tasks[t].pc = "f_synced"
  /\ tasks' = [tasks EXCEPT ![t] =
       Return(tasks[t], IF tasks[t].res = "throw" THEN "failure" ELSE "success")]
  /\ UNCHANGED <<netVars, listeners, isOnline, syncEnabled, timers, currentUrl, dbInstance,
                 syncVars, storage, rxdb>>

\* ------------------------------------------------------------ setSyncEnabled
\* database.js 786-801
CallSetSyncEnabled(enabled) ==
  /\ syncEnabled' = enabled
  /\ IF ~enabled
     THEN /\ SetSync(StopSync(SyncState))
          /\ UNCHANGED tasks
     ELSE IF isOnline
     THEN /\ FreeTask # 0
          /\ tasks' = [tasks EXCEPT ![FreeTask] = InitCall(Push(NewTask("enable"), "e_gotdb"))]
          /\ UNCHANGED syncVars
     ELSE UNCHANGED <<syncVars, tasks>>
  /\ UNCHANGED <<netVars, listeners, isOnline, currentUrl, dbInstance, storage, rxdb,
                 timers>>

\* database.js 793-794: initDatabase().then(db => detectCouchDBUrl()...)
EnableGotDb(t) ==
  /\ tasks[t].pc = "e_gotdb"
  /\ tasks' = [tasks EXCEPT ![t] = DetectEntry(Push(tasks[t], "e_detected"))]
  /\ UNCHANGED <<netVars, listeners, isOnline, syncEnabled, timers, currentUrl, dbInstance,
                 syncVars, storage, rxdb>>

\* database.js 794-798
EnableDetected(t) ==
  /\ tasks[t].pc = "e_detected"
  /\ LET tk == tasks[t]
     IN IF tk.res # "throw" /\ tk.url # NoUrl
        THEN LET c == StartSyncCall(Push(tk, "e_synced"), tk.db, SyncState)
             IN /\ tasks' = [tasks EXCEPT ![t] = c.task]
                /\ SetSync(c.sync)
        ELSE /\ tasks' = [tasks EXCEPT ![t] =
                   Return(tk, IF tk.res = "throw" THEN "rejected" ELSE "value")]
             /\ UNCHANGED syncVars
  /\ UNCHANGED <<netVars, listeners, isOnline, syncEnabled, timers, currentUrl, dbInstance,
                 storage, rxdb>>

\* ------------------------------------------------------------ pushLocalDataToCouchDB
\* database.js 1035: await NetInfo.fetch()
CallPushLocalData ==
  /\ FreeTask # 0
  /\ tasks' = [tasks EXCEPT ![FreeTask] = [NewTask("push") EXCEPT !.pc = "p_fetch"]]
  /\ UNCHANGED <<netVars, listeners, isOnline, syncEnabled, timers, currentUrl, dbInstance,
                 syncVars, storage, rxdb>>

\* database.js 1036-1054: the fresh network state overwrites isOnline
PushFetched(t) ==
  /\ tasks[t].pc = "p_fetch"
  /\ isOnline' = net
  /\ LET tk == tasks[t]
     IN tasks' = [tasks EXCEPT ![t] =
          IF ~net THEN Return(tk, "failure")
          ELSE IF currentUrl = NoUrl THEN DetectEntry(Push(tk, "p_detected"))
          ELSE InitCall(Push(tk, "p_gotdb"))]
  /\ UNCHANGED <<netVars, listeners, syncEnabled, timers, currentUrl, dbInstance,
                 syncVars, storage, rxdb>>

\* database.js 1047-1054
PushDetected(t) ==
  /\ tasks[t].pc = "p_detected"
  /\ LET tk == tasks[t]
     IN tasks' = [tasks EXCEPT ![t] =
          IF tk.res = "throw" \/ tk.url = NoUrl THEN Return(tk, "failure")
          ELSE InitCall(Push(Forget(tk), "p_gotdb"))]
  /\ UNCHANGED <<netVars, listeners, isOnline, syncEnabled, timers, currentUrl, dbInstance,
                 syncVars, storage, rxdb>>

\* database.js 1056-1069: nothing to push, or stopSync() and startSync(db)
PushGotDb(t) ==
  /\ tasks[t].pc = "p_gotdb"
  /\ LET tk == tasks[t]
     IN IF rxdb[tk.db].businesses = {} /\ rxdb[tk.db].articles = {}
        THEN /\ tasks' = [tasks EXCEPT ![t] = Return(tk, "success")]
             /\ UNCHANGED syncVars
        ELSE LET c == StartSyncCall(Push(tk, "p_synced"), tk.db, StopSync(SyncState))
             IN /\ tasks' = [tasks EXCEPT ![t] = c.task]
                /\ SetSync(c.sync)
  /\ UNCHANGED <<netVars, listeners, isOnline, syncEnabled, timers, currentUrl, dbInstance,
                 storage, rxdb>>

\* database.js 1071-1075
PushSynced(t) ==
  /\ tasks[t].pc = "p_synced"
  /\ tasks' = [tasks EXCEPT ![t] =
       Return(tasks[t], IF tasks[t].res = "throw" THEN "failure" ELSE "success")]
  /\ UNCHANGED <<netVars, listeners, isOnline, syncEnabled, timers, currentUrl, dbInstance,
                 syncVars, storage, rxdb>>

\* ------------------------------------------------------------ documents
\* schemas.js: a business is {id, name}, an article is {id, name, qty,
\* selling_price, business_id}; id is the primary key
Ids == 1..MaxDocs
Names == 1..MaxNames
BusinessDocs == [id : Ids, name : Names]
ArticleDocs == [id : Ids, name : Names, qty : {1}, selling_price : {1}, business_id : Ids]
DocsOf(c) == IF c = "businesses" THEN BusinessDocs ELSE ArticleDocs
KeyOf(c) == IF c = "businesses" THEN BUSINESSES_KEY ELSE ARTICLES_KEY

\* collection.find().exec() mapped with toJSON(): the documents of the
\* collection as a list, in the order of their primary key
RECURSIVE ToList(_)
ToList(S) ==
  IF S = {} THEN <<>>
  ELSE LET d == CHOOSE x \in S : \A y \in S : x.id <= y.id
       IN <<d>> \o ToList(S \ {d})

\* ------------------------------------------------------------ interleaving
\* History kept for the CRUD operations: task.alone says that since the
\* operation mutated its collection no other call has mutated that collection
\* or written its Durable Cache entry.  Touched(tks, self, c) is tks after such a
\* mutation or write of collection c made by task self (0: by no task).
Touched(tks, self, c) ==
  [t \in TaskIds |->
     IF t # self /\ tks[t].coll = c /\ tks[t].alone
     THEN [tks[t] EXCEPT !.alone = FALSE]
     ELSE tks[t]]

\* ------------------------------------------------------------ flush
\* a flush that goes to the other collection
FlushCall_OtherCollection(tk, c, db) ==
  [tk EXCEPT !.pc = "fl_find", !.db = db, !.snap = <<>>,
             !.coll = IF c = "businesses" THEN "articles" ELSE "businesses"]

\* database.js 381-383, 395-397: saveBusinessesToStorage(db) or
\* saveArticlesToStorage(db) is called: the query is awaited
FlushCall(tk, c, db) ==
  [tk EXCEPT !.pc = "fl_find", !.coll = c, !.db = db, !.snap = <<>>]

\* database.js 383-385, 388-391: the query resolved and setItem is awaited, or
\* the query rejected and the catch returns [].  What a query on a destroyed
\* instance does is up to the library: it rejects or still answers.
FlushFound(t) ==
  /\ tasks[t].pc = "fl_find"
  /\ LET tk == tasks[t]
         st == rxdb[tk.db]
     IN \E answers \in BOOLEAN :
          /\ st.status = "open" => answers
          /\ st.status = "none" => ~answers
          /\ tasks' = [tasks EXCEPT ![t] =
               IF answers THEN [tk EXCEPT !.pc = "fl_set", !.snap = ToList(st[tk.coll])]
               ELSE Return(tk, "failed")]
  /\ UNCHANGED <<netVars, listeners, isOnline, syncEnabled, timers, currentUrl, dbInstance,
                 syncVars, storage, rxdb>>

\* database.js 385-391: setItem resolved and the snapshot is in the cache, or
\* it rejected and the catch returns []
FlushWritten(t) ==
  /\ tasks[t].pc = "fl_set"
  /\ LET tk == tasks[t]
     IN \E written \in BOOLEAN :
          /\ storage' = IF written
                        THEN [storage EXCEPT ![KeyOf(tk.coll)] = [present |-> TRUE, docs |-> tk.snap]]
                        ELSE storage
          /\ tasks' = [IF written THEN Touched(tasks, t, tk.coll) ELSE tasks EXCEPT ![t] =
               Return([tk EXCEPT !.snap = <<>>], IF written THEN "saved" ELSE "failed")]
  /\ UNCHANGED <<netVars, listeners, isOnline, syncEnabled, timers, currentUrl, dbInstance,
                 syncVars, rxdb>>

\* ------------------------------------------------------------ syncStorageWithDatabase
\* database.js 409-413: syncStorageWithDatabase() starts with
\* `await initDatabase()`
CallSyncStorage ==
  /\ FreeTask # 0
  /\ tasks' = [tasks EXCEPT ![FreeTask] = InitCall(Push(NewTask("syncStorage"), "y_gotdb"))]
  /\ UNCHANGED <<netVars, listeners, isOnline, syncEnabled, timers, currentUrl, dbInstance,
                 syncVars, storage, rxdb>>

\* database.js 413-416: initDatabase() resolved, the businesses query is awaited
SyncStorageGotDb(t) ==
  /\ tasks[t].pc = "y_gotdb"
  /\ tasks' = [tasks EXCEPT ![t].pc = "y_findB"]
  /\ UNCHANGED <<netVars, listeners, isOnline, syncEnabled, timers, currentUrl, dbInstance,
                 syncVars, storage, rxdb>>

\* database.js 416-417, 432-435: the businesses query resolved and the articles
\* query is awaited, or it rejected and the catch returns success false
SyncStorageFoundBusinesses(t) ==
  /\ tasks[t].pc = "y_findB"
  /\ LET tk == tasks[t]
         st == rxdb[tk.db]
     IN \E answers \in BOOLEAN :
          /\ st.status = "open" => answers
          /\ st.status = "none" => ~answers
          /\ tasks' = [tasks EXCEPT ![t] =
               IF answers THEN [tk EXCEPT !.pc = "y_findA", !.snap = ToList(st.businesses)]
               ELSE Return(tk, "failure")]
  /\ UNCHANGED <<netVars, listeners, isOnline, syncEnabled, timers, currentUrl, dbInstance,
                 syncVars, storage, rxdb>>

\* database.js 417-423: the articles query resolved and the setItem of the
\* businesses is awaited
SyncStorageFoundArticles(t) ==
  /\ tasks[t].pc = "y_findA"
  /\ LET tk == tasks[t]
         st == rxdb[tk.db]
     IN \E answers \in BOOLEAN :
          /\ st.status = "open" => answers
          /\ st.status = "none" => ~answers
          /\ tasks' = [tasks EXCEPT ![t] =
               IF answers THEN [tk EXCEPT !.pc = "y_setB", !.snap2 = ToList(st.articles)]
               ELSE Return(tk, "failure")]
  /\ UNCHANGED <<netVars, listeners, isOnline, syncEnabled, timers, currentUrl, dbInstance,
                 syncVars, storage, rxdb>>

\* database.js 423-424: the businesses snapshot is written and the setItem of
\* the articles is awaited
SyncStorageWroteBusinesses(t) ==
  /\ tasks[t].pc = "y_setB"
  /\ LET tk == tasks[t]
     IN \E written \in BOOLEAN :
          IF written
          THEN /\ storage' = [storage EXCEPT ![BUSINESSES_KEY] = [present |-> TRUE, docs |-> tk.snap]]
               /\ tasks' = [Touched(tasks, t, "businesses") EXCEPT ![t].pc = "y_setA"]
          ELSE /\ tasks' = [tasks EXCEPT ![t] = Return(tk, "failure")]
               /\ UNCHANGED storage
  /\ UNCHANGED <<netVars, listeners, isOnline, syncEnabled, timers, currentUrl, dbInstance,
                 syncVars, rxdb>>

\* database.js 424-431: the articles snapshot is written and the counts are
\* returned with success true
SyncStorageWroteArticles(t) ==
  /\ tasks[t].pc = "y_setA"
  /\ LET tk == tasks[t]
     IN \E written \in BOOLEAN :
          IF written
          THEN /\ storage' = [storage EXCEPT ![ARTICLES_KEY] = [present |-> TRUE, docs |-> tk.snap2]]
               /\ tasks' = [Touched(tasks, t, "articles") EXCEPT ![t] = Return(tk, "success")]
          ELSE /\ tasks' = [tasks EXCEPT ![t] = Return(tk, "failure")]
               /\ UNCHANGED storage
  /\ UNCHANGED <<netVars, listeners, isOnline, syncEnabled, timers, currentUrl, dbInstance,
                 syncVars, rxdb>>

\* ------------------------------------------------------------ replication events
\* database.js 280-284, 302-306: sent$ emits a batch: the flush of the
\* session's collection is set to run after the delay
SessionSent(i) ==
  /\ sessions[i] # NoSession
  /\ net
  /\ LET k == FlushTimer(sessions[i].coll, sessions[i].db)
     IN /\ timers[k] < MaxPending
        /\ timers' = [timers EXCEPT ![k] = @ + 1]
  /\ UNCHANGED <<netVars, listeners, isOnline, syncEnabled, currentUrl, dbInstance,
                 syncVars, storage, rxdb, tasks>>

\* a write that adds the new state of a document beside the old one
Upsert_Append(coll, doc) == coll \cup {doc}

\* a document pulled from the remote replaces the local one of the same id
Upsert(coll, doc) == {d \in coll : d.id # doc.id} \cup {doc}

\* database.js 287-291, 309-313: received$ emits a batch the session has
\* written to its collection: the flush is set to run after the delay
SessionReceived(i) ==
  /\ sessions[i] # NoSession
  /\ net
  /\ LET c == sessions[i].coll
         db == sessions[i].db
         k == FlushTimer(c, db)
     IN /\ rxdb[db].status = "open"
        /\ timers[k] < MaxPending
        /\ timers' = [timers EXCEPT ![k] = @ + 1]
        /\ \E doc \in DocsOf(c) : rxdb' = [rxdb EXCEPT ![db][c] = Upsert(@, doc)]
        /\ tasks' = Touched(tasks, 0, c)
  /\ UNCHANGED <<netVars, listeners, isOnline, syncEnabled, currentUrl, dbInstance,
                 syncVars, storage>>

\* database.js 276-278, 298-300: error$ emits: the error is logged
SessionError(i) ==
  /\ sessions[i] # NoSession
  /\ sessions' = [sessions EXCEPT ![i].err = TRUE]
  /\ UNCHANGED <<netVars, listeners, isOnline, syncEnabled, timers, currentUrl, dbInstance,
                 businessReplication, articleReplication, storage, rxdb, tasks>>

\* database.js 283, 290, 305, 312: the delay is over, the flush starts
TimerFlush(c, d) ==
  /\ timers[FlushTimer(c, d)] > 0
  /\ FreeTask # 0
  /\ timers' = [timers EXCEPT ![FlushTimer(c, d)] = @ - 1]
  /\ tasks' = [tasks EXCEPT ![FreeTask] = FlushCall(NewTask("flush"), c, d)]
  /\ UNCHANGED <<netVars, listeners, isOnline, syncEnabled, currentUrl, dbInstance,
                 syncVars, storage, rxdb>>

\* ------------------------------------------------------------ CRUD
\* database.js 442, 465, 482, 512, 565: add, update and deleteArticleWithSync
\* start with `await initDatabase()`
CallCrud(op, c, doc) ==
  /\ FreeTask # 0
  /\ tasks' = [tasks EXCEPT ![FreeTask] =
       InitCall(Push([NewTask(op) EXCEPT !.coll = c, !.arg = doc], "c_gotdb"))]
  /\ UNCHANGED <<netVars, listeners, isOnline, syncEnabled, timers, currentUrl, dbInstance,
                 syncVars, storage, rxdb>>

\* addBusiness(business), addArticle(article)
CallAdd(c, doc) == CallCrud("add", c, doc)

\* updateBusiness(id, data), updateArticleData(id, data): doc is the id with
\* the fields of data
CallUpdate(c, doc) == CallCrud("update", c, doc)

\* deleteArticleWithSync(id)
CallDeleteArticle(id) == CallCrud("deleteArticle", "articles", [id |-> id])

\* database.js 543-547: deleteBusiness(businessDoc) starts with the remove() of
\* the document it is given, a document of instance d
CallDeleteBusiness(d, id) ==
  /\ FreeTask # 0
  /\ rxdb[d].status # "none"
  /\ tasks' = [tasks EXCEPT ![FreeTask] =
       [NewTask("deleteBusiness") EXCEPT !.coll = "businesses", !.arg = [id |-> id],
                                         !.db = d, !.pc = "c_remove"]]
  /\ UNCHANGED <<netVars, listeners, isOnline, syncEnabled, timers, currentUrl, dbInstance,
                 syncVars, storage, rxdb>>

\* the document of collection coll with the id of doc, as a set
Found(coll, doc) == {d \in coll : d.id = doc.id}

\* an insert that takes a document whose id is in the collection
Conflict_Never(coll, doc) == FALSE

\* insert rejects a document whose primary key is in the collection
Conflict(coll, doc) == Found(coll, doc) # {}

\* a mutation that is not followed by the save
Mutated_NoSave(tk) == [tk EXCEPT !.pc = "c_saved", !.res = "saved", !.alone = TRUE]

\* an operation that raises when its save failed
CrudResult_SaveThrows(tk) == IF tk.res = "failed" THEN "throw" ELSE "value"

\* database.js 455-456, 472-473, 502-503, 535-536, 553-554, 601: the
\* operation returns its value whatever the save returned (the save has
\* swallowed its own failure, 388-391)
CrudResult(tk) == "value"

\* the save of the collection follows the mutation (453, 470, 500, 533, 586)
Mutated(tk) == [FlushCall(Push(tk, "c_saved"), tk.coll, tk.db) EXCEPT !.alone = TRUE]

\* database.js 442-453, 465-470: initDatabase() resolved, insert is awaited: a
\* document with a new id is in the collection and the save is called; an id
\* that is there, or an instance that was destroyed, makes insert throw
AddGotDb(t) ==
  /\ tasks[t].pc = "c_gotdb"
  /\ tasks[t].op = "add"
  /\ LET tk == tasks[t]
         st == rxdb[tk.db]
     IN IF st.status = "open" /\ ~Conflict(st[tk.coll], tk.arg)
        THEN /\ rxdb' = [rxdb EXCEPT ![tk.db][tk.coll] = @ \cup {tk.arg}]
             /\ tasks' = [Touched(tasks, t, tk.coll) EXCEPT ![t] = Mutated(tk)]
        ELSE /\ tasks' = [tasks EXCEPT ![t] = Return(tk, "throw")]
             /\ UNCHANGED rxdb
  /\ UNCHANGED <<netVars, listeners, isOnline, syncEnabled, timers, currentUrl, dbInstance,
                 syncVars, storage>>

\* database.js 482-488, 512-518, 565-571: initDatabase() resolved, findOne is
\* awaited
FindGotDb(t) ==
  /\ tasks[t].pc = "c_gotdb"
  /\ tasks[t].op \in {"update", "deleteArticle"}
  /\ tasks' = [tasks EXCEPT ![t].pc = "c_find"]
  /\ UNCHANGED <<netVars, listeners, isOnline, syncEnabled, timers, currentUrl, dbInstance,
                 syncVars, storage, rxdb>>

\* database.js 490-497, 520-530, 573-582: findOne resolved: without a document
\* update throws and deleteArticleWithSync returns false; with one, modify() or
\* remove() is awaited
FindFound(t) ==
  /\ tasks[t].pc = "c_find"
  /\ LET tk == tasks[t]
         st == rxdb[tk.db]
     IN tasks' = [tasks EXCEPT ![t] =
          IF st.status # "open" THEN Return(tk, "throw")
          ELSE IF Found(st[tk.coll], tk.arg) = {}
          THEN Return(tk, IF tk.op = "update" THEN "throw" ELSE "false")
          ELSE [tk EXCEPT !.pc = "c_mutate"]]
  /\ UNCHANGED <<netVars, listeners, isOnline, syncEnabled, timers, currentUrl, dbInstance,
                 syncVars, storage, rxdb>>

\* database.js 494-500, 524-533: modify() resolved: the fields of the payload
\* are in the document (its id is kept) and the save is called; a document that
\* is gone makes modify throw
UpdateModified(t) ==
  /\ tasks[t].pc = "c_mutate"
  /\ tasks[t].op = "update"
  /\ LET tk == tasks[t]
         st == rxdb[tk.db]
     IN IF st.status = "open" /\ Found(st[tk.coll], tk.arg) # {}
        THEN /\ rxdb' = [rxdb EXCEPT ![tk.db][tk.coll] = Upsert(@, tk.arg)]
             /\ tasks' = [Touched(tasks, t, tk.coll) EXCEPT ![t] = Mutated(tk)]
        ELSE /\ tasks' = [tasks EXCEPT ![t] = Return(tk, "throw")]
             /\ UNCHANGED rxdb
  /\ UNCHANGED <<netVars, listeners, isOnline, syncEnabled, timers, currentUrl, dbInstance,
                 syncVars, storage>>

\* database.js 582-586: remove() resolved: the article is gone and the save is
\* called; an article that is gone already makes remove throw
ArticleRemoved(t) ==
  /\ tasks[t].pc = "c_mutate"
  /\ tasks[t].op = "deleteArticle"
  /\ LET tk == tasks[t]
         st == rxdb[tk.db]
     IN IF st.status = "open" /\ Found(st[tk.coll], tk.arg) # {}
        THEN /\ rxdb' = [rxdb EXCEPT ![tk.db][tk.coll] = @ \ Found(@, tk.arg)]
             /\ tasks' = [Touched(tasks, t, tk.coll) EXCEPT ![t] = Mutated(tk)]
        ELSE /\ tasks' = [tasks EXCEPT ![t] = Return(tk, "throw")]
             /\ UNCHANGED rxdb
  /\ UNCHANGED <<netVars, listeners, isOnline, syncEnabled, timers, currentUrl, dbInstance,
                 syncVars, storage>>

\* a removal that takes the articles of the business with it
RemoveBusiness_Cascade(st, doc) ==
  [st EXCEPT !.businesses = @ \ Found(@, doc),
             !.articles = {a \in @ : a.business_id # doc.id}]

\* database.js 547: businessDoc.remove() takes the document out of the
\* businesses collection and nothing else
RemoveBusiness(st, doc) == [st EXCEPT !.businesses = @ \ Found(@, doc)]

\* database.js 547-550: remove() of the given document resolved and
\* initDatabase() is awaited; a document that is gone makes remove throw
BusinessRemoved(t) ==
  /\ tasks[t].pc = "c_remove"
  /\ LET tk == tasks[t]
         st == rxdb[tk.db]
     IN IF st.status = "open" /\ Found(st[tk.coll], tk.arg) # {}
        THEN /\ rxdb' = [rxdb EXCEPT ![tk.db] = RemoveBusiness(@, tk.arg)]
             /\ tasks' = [Touched(tasks, t, tk.coll) EXCEPT ![t] =
                  InitCall(Push([tk EXCEPT !.alone = TRUE], "c_gotdb"))]
        ELSE /\ tasks' = [tasks EXCEPT ![t] = Return(tk, "throw")]
             /\ UNCHANGED rxdb
  /\ UNCHANGED <<netVars, listeners, isOnline, syncEnabled, timers, currentUrl, dbInstance,
                 syncVars, storage>>

\* database.js 550-551: initDatabase() resolved, the save is called
BusinessDeleteGotDb(t) ==
  /\ tasks[t].pc = "c_gotdb"
  /\ tasks[t].op = "deleteBusiness"
  /\ tasks' = [tasks EXCEPT ![t] = FlushCall(Push(tasks[t], "c_saved"), tasks[t].coll, tasks[t].db)]
  /\ UNCHANGED <<netVars, listeners, isOnline, syncEnabled, timers, currentUrl, dbInstance,
                 syncVars, storage, rxdb>>

\* database.js 455-456, 472-473, 502-503, 535-536, 553-554, 588-602: the save
\* returned (its own failure it has swallowed) and the operation returns;
\* deleteArticleWithSync first sets the timer of forceSyncNow when the device is
\* online and sync is enabled
CrudSaved(t) ==
  /\ tasks[t].pc = "c_saved"
  /\ LET tk == tasks[t]
         force == tk.op = "deleteArticle" /\ isOnline /\ syncEnabled
     IN /\ force => timers[ForceTimer] < MaxPending
        /\ timers' = IF force THEN [timers EXCEPT ![ForceTimer] = @ + 1] ELSE timers
        /\ tasks' = [tasks EXCEPT ![t] = Return(tk, CrudResult(tk))]
  /\ UNCHANGED <<netVars, listeners, isOnline, syncEnabled, currentUrl, dbInstance,
                 syncVars, storage, rxdb>>

\* ------------------------------------------------------------ lookups
LookupOps == {"getBusinessById", "getArticleById", "getArticlesByBusinessId"}

\* the collection a lookup queries
LookupColl(op) == IF op = "getBusinessById" THEN "businesses" ELSE "articles"

\* a listing that does not select by business
LookupResult_Unfiltered(op, coll, key) ==
  IF op = "getArticlesByBusinessId"
  THEN ToList(coll)
  ELSE ToList({d \in coll : d.id = key})

\* database.js 618-622, 644-648, 659-663: the documents the query of lookup op
\* selects in collection coll for key
LookupResult(op, coll, key) ==
  IF op = "getArticlesByBusinessId"
  THEN ToList({d \in coll : d.business_id = key})
  ELSE ToList({d \in coll : d.id = key})

\* database.js 615-617, 641-643, 656-658: a lookup starts with
\* `await initDatabase()`
CallLookup(op, key) ==
  /\ FreeTask # 0
  /\ tasks' = [tasks EXCEPT ![FreeTask] =
       InitCall(Push([NewTask(op) EXCEPT !.coll = LookupColl(op), !.arg = [id |-> key]],
                     "q_gotdb"))]
  /\ UNCHANGED <<netVars, listeners, isOnline, syncEnabled, timers, currentUrl, dbInstance,
                 syncVars, storage, rxdb>>

\* database.js 618-622: initDatabase() resolved, the query is awaited
LookupGotDb(t) ==
  /\ tasks[t].pc = "q_gotdb"
  /\ tasks' = [tasks EXCEPT ![t].pc = "q_find"]
  /\ UNCHANGED <<netVars, listeners, isOnline, syncEnabled, timers, currentUrl, dbInstance,
                 syncVars, storage, rxdb>>

\* database.js 622-627: the query resolved and its result is returned, or it
\* rejected (the instance was destroyed) and the catch rethrows
LookupFound(t) ==
  /\ tasks[t].pc = "q_find"
  /\ LET tk == tasks[t]
         st == rxdb[tk.db]
     IN tasks' = [tasks EXCEPT ![t] =
          IF st.status = "open"
          THEN [Return(tk, "value") EXCEPT
                  !.snap = LookupResult(tk.op, st[tk.coll], tk.arg.id)]
          ELSE Return(tk, "throw")]
  /\ UNCHANGED <<netVars, listeners, isOnline, syncEnabled, timers, currentUrl, dbInstance,
                 syncVars, storage, rxdb>>

\* ------------------------------------------------------------ getSyncStatus
\* replication.isStopped(): the session was cancelled
IsStopped(ss, i) == ss[i] = NoSession

\* database.js 731-741
GetSyncStatus(ss) ==
  [isOnline |-> isOnline,
   syncEnabled |-> syncEnabled,
   businessSyncActive |-> businessReplication # 0 /\ ~IsStopped(ss, businessReplication),
   articleSyncActive |-> articleReplication # 0 /\ ~IsStopped(ss, articleReplication),
   currentUrl |-> currentUrl]

\* ------------------------------------------------------------ resets
\* AsyncStorage.removeItem(key)
Removed(st, key) ==
  [st EXCEPT ![key] = IF key = COUCHDB_URL_KEY THEN NoUrl
                      ELSE [present |-> FALSE, docs |-> <<>>]]

\* database.js 827-833: stopSync(), then the first removeItem is awaited
CallCleanupAndReset ==
  /\ FreeTask # 0
  /\ SetSync(StopSync(SyncState))
  /\ tasks' = [tasks EXCEPT ![FreeTask] = [NewTask("cleanup") EXCEPT !.pc = "r_rmB"]]
  /\ UNCHANGED <<netVars, listeners, isOnline, syncEnabled, timers, currentUrl, dbInstance,
                 storage, rxdb>>

\* database.js 1083-1085: the first removeItem is awaited, nothing is stopped yet
CallClearAllData ==
  /\ FreeTask # 0
  /\ tasks' = [tasks EXCEPT ![FreeTask] = [NewTask("clearAll") EXCEPT !.pc = "r_rmB"]]
  /\ UNCHANGED <<netVars, listeners, isOnline, syncEnabled, timers, currentUrl, dbInstance,
                 syncVars, storage, rxdb>>

\* database.js 833-834, 1085-1086: the businesses snapshot is removed
ResetRemovedBusinesses(t) ==
  /\ tasks[t].pc = "r_rmB"
  /\ storage' = Removed(storage, BUSINESSES_KEY)
  /\ tasks' = [Touched(tasks, t, "businesses") EXCEPT ![t].pc = "r_rmA"]
  /\ UNCHANGED <<netVars, listeners, isOnline, syncEnabled, timers, currentUrl, dbInstance,
                 syncVars, rxdb>>

\* database.js 834-835, 1086-1087: the articles snapshot is removed
ResetRemovedArticles(t) ==
  /\ tasks[t].pc = "r_rmA"
  /\ storage' = Removed(storage, ARTICLES_KEY)
  /\ tasks' = [Touched(tasks, t, "articles") EXCEPT ![t].pc = "r_rmU"]
  /\ UNCHANGED <<netVars, listeners, isOnline, syncEnabled, timers, currentUrl, dbInstance,
                 syncVars, rxdb>>

\* database.js 835-838, 1087-1092: the persisted URL is removed; clearAllData
\* calls stopSync() only now; the instance, when there is one, is told to
\* destroy itself
ResetRemovedUrl(t) ==
  /\ tasks[t].pc = "r_rmU"
  /\ storage' = Removed(storage, COUCHDB_URL_KEY)
  /\ SetSync(IF tasks[t].op = "clearAll" THEN StopSync(SyncState) ELSE SyncState)
  /\ IF dbInstance # NoDb
     THEN /\ rxdb' = [rxdb EXCEPT ![dbInstance].status = "destroyed"]
          /\ tasks' = [tasks EXCEPT ![t].pc = "r_destroy"]
     ELSE /\ tasks' = [tasks EXCEPT ![t] = Return(tasks[t], "success")]
          /\ UNCHANGED rxdb
  /\ UNCHANGED <<netVars, listeners, isOnline, syncEnabled, timers, currentUrl, dbInstance>>

\* database.js 838-843, 1092-1095: destroy() resolved, dbInstance = null
ResetDestroyed(t) ==
  /\ tasks[t].pc = "r_destroy"
  /\ dbInstance' = NoDb
  /\ tasks' = [tasks EXCEPT ![t] = Return(tasks[t], "success")]
  /\ UNCHANGED <<netVars, listeners, isOnline, syncEnabled, timers, currentUrl,
                 syncVars, storage, rxdb>>

\* ------------------------------------------------------------ createCouchDBDatabases
\* the run of an operation records the step it has taken (a history kept for
\* the comparison of orders; no step reads it)
Logged(tk, step) == [tk EXCEPT !.log = Append(@, step)]

\* database.js 672-695: offline the call returns { success: false } at once;
\* with a current URL the server is asked (GET /), without one discovery runs
\* first
CreateCall(tk) ==
  IF ~isOnline THEN Return(tk, "failure")
  ELSE IF currentUrl # NoUrl THEN Logged(Sent(tk, "k_root"), "GET root")
  ELSE DetectEntry(Push(tk, "k_detected"))

\* database.js 679-695: discovery returned: without a URL the call returns
\* { success: false }, with one the server is asked
CreateDetected(t) ==
  /\ tasks[t].pc = "k_detected"
  /\ LET tk == tasks[t]
     IN tasks' = [tasks EXCEPT ![t] =
          IF tk.res = "throw" \/ tk.url = NoUrl THEN Return(Forget(tk), "failure")
          ELSE Logged(Sent(Forget(tk), "k_root"), "GET root")]
  /\ UNCHANGED <<netVars, listeners, isOnline, syncEnabled, timers, currentUrl, dbInstance,
                 syncVars, storage, rxdb>>

\* database.js 695-705: the server answered: a response that is not ok, or a
\* rejection, ends in the catch; else the businesses database is PUT
CreateRootAnswered(t) ==
  /\ tasks[t].pc = "k_root"
  /\ tasks[t].resp \in Outcomes
  /\ LET tk == tasks[t]
     IN tasks' = [tasks EXCEPT ![t] =
          IF tk.resp = "ok" THEN Logged(Sent(tk, "k_putB"), "PUT businesses")
          ELSE Return(tk, "failure")]
  /\ UNCHANGED <<netVars, listeners, isOnline, syncEnabled, timers, currentUrl, dbInstance,
                 syncVars, storage, rxdb>>

\* database.js 702-717: the PUT of businesses answered (any status goes on) or
\* was rejected (the catch); the articles database is PUT
CreatePutBusinesses(t) ==
  /\ tasks[t].pc = "k_putB"
  /\ tasks[t].resp \in Outcomes
  /\ LET tk == tasks[t]
     IN tasks' = [tasks EXCEPT ![t] =
          IF tk.resp = "error" THEN Return(tk, "failure")
          ELSE Logged(Sent(tk, "k_putA"), "PUT articles")]
  /\ UNCHANGED <<netVars, listeners, isOnline, syncEnabled, timers, currentUrl, dbInstance,
                 syncVars, storage, rxdb>>

\* database.js 714-728: the PUT of articles answered or was rejected
CreatePutArticles(t) ==
  /\ tasks[t].pc = "k_putA"
  /\ tasks[t].resp \in Outcomes
  /\ tasks' = [tasks EXCEPT ![t] =
       Return(tasks[t], IF tasks[t].resp = "error" THEN "failure" ELSE "success")]
  /\ UNCHANGED <<netVars, listeners, isOnline, syncEnabled, timers, currentUrl, dbInstance,
                 syncVars, storage, rxdb>>

\* BusinessScreen.js 99, 572, 617: the screen calls createCouchDBDatabases()
CallCreateDatabases ==
  /\ FreeTask # 0
  /\ tasks' = [tasks EXCEPT ![FreeTask] = CreateCall(NewTask("create"))]
  /\ UNCHANGED <<netVars, listeners, isOnline, syncEnabled, timers, currentUrl, dbInstance,
                 syncVars, storage, rxdb>>

\* ------------------------------------------------------------ permanentlyDeleteAllData
\* database.js 925-934: stopSync(), then the first removeItem is awaited
CallPermanentlyDelete ==
  /\ FreeTask # 0
  /\ SetSync(StopSync(SyncState))
  /\ tasks' = [tasks EXCEPT ![FreeTask] =
       Logged([NewTask("wipe") EXCEPT !.pc = "w_rmB"], "stopSync")]
  /\ UNCHANGED <<netVars, listeners, isOnline, syncEnabled, timers, currentUrl, dbInstance,
                 storage, rxdb>>

\* database.js 932-933: the businesses snapshot is removed
WipeRemovedBusinesses(t) ==
  /\ tasks[t].pc = "w_rmB"
  /\ storage' = Removed(storage, BUSINESSES_KEY)
  /\ tasks' = [Touched(tasks, t, "businesses") EXCEPT ![t].pc = "w_rmA"]
  /\ UNCHANGED <<netVars, listeners, isOnline, syncEnabled, timers, currentUrl, dbInstance,
                 syncVars, rxdb>>

\* database.js 933-934: the articles snapshot is removed
WipeRemovedArticles(t) ==
  /\ tasks[t].pc = "w_rmA"
  /\ storage' = Removed(storage, ARTICLES_KEY)
  /\ tasks' = [Touched(tasks, t, "articles") EXCEPT ![t].pc = "w_rmU"]
  /\ UNCHANGED <<netVars, listeners, isOnline, syncEnabled, timers, currentUrl, dbInstance,
                 syncVars, rxdb>>

\* database.js 943-958: `COUCHDB_CONFIG.currentUrl || await detectCouchDBUrl()`:
\* with a current URL the DELETE of the businesses database is sent, without
\* one discovery runs first
WipeLocate(tk, url) ==
  IF url # NoUrl THEN Logged(Sent(tk, "w_delB"), "DELETE businesses")
  ELSE DetectEntry(Push(tk, "w_detected"))

\* database.js 934-943: the persisted URL is removed; the instance, when there
\* is one, is told to destroy itself
WipeRemovedUrl(t) ==
  /\ tasks[t].pc = "w_rmU"
  /\ storage' = Removed(storage, COUCHDB_URL_KEY)
  /\ LET tk == Logged(tasks[t], "removed")
     IN IF dbInstance # NoDb
        THEN /\ rxdb' = [rxdb EXCEPT ![dbInstance].status = "destroyed"]
             /\ tasks' = [tasks EXCEPT ![t] = [tk EXCEPT !.pc = "w_destroy"]]
        ELSE /\ tasks' = [tasks EXCEPT ![t] = WipeLocate(tk, currentUrl)]
             /\ UNCHANGED rxdb
  /\ UNCHANGED <<netVars, listeners, isOnline, syncEnabled, timers, currentUrl, dbInstance,
                 syncVars>>

\* database.js 938-943: destroy() resolved, dbInstance = null
WipeDestroyed(t) ==
  /\ tasks[t].pc = "w_destroy"
  /\ dbInstance' = NoDb
  /\ tasks' = [tasks EXCEPT ![t] = WipeLocate(Logged(tasks[t], "destroyed"), currentUrl)]
  /\ UNCHANGED <<netVars, listeners, isOnline, syncEnabled, timers, currentUrl,
                 syncVars, storage, rxdb>>

\* database.js 943-958, 981: discovery returned: without a URL the remote is
\* left alone and initDatabase() is awaited; a discovery that threw ends in
\* the catch
WipeDetected(t) ==
  /\ tasks[t].pc = "w_detected"
  /\ LET tk == tasks[t]
     IN tasks' = [tasks EXCEPT ![t] =
          IF tk.res = "throw" THEN Return(Forget(tk), "failure")
          ELSE IF tk.url = NoUrl THEN InitCall(Push(Forget(tk), "w_gotdb"))
          ELSE Logged(Sent(Forget(tk), "w_delB"), "DELETE businesses")]
  /\ UNCHANGED <<netVars, listeners, isOnline, syncEnabled, timers, currentUrl, dbInstance,
                 syncVars, storage, rxdb>>

\* database.js 955-967: the DELETE of businesses answered or was rejected (its
\* own try/catch): the DELETE of articles is sent
WipeDeletedBusinesses(t) ==
  /\ tasks[t].pc = "w_delB"
  /\ tasks[t].resp \in Outcomes
  /\ tasks' = [tasks EXCEPT ![t] =
       Logged(Sent(Logged(tasks[t], "businesses returned"), "w_delA"), "DELETE articles")]
  /\ UNCHANGED <<netVars, listeners, isOnline, syncEnabled, timers, currentUrl, dbInstance,
                 syncVars, storage, rxdb>>

\* a deletion that recreates the databases without waiting
WipeAfterDeletes_NoDelay(tk) == CreateCall(Push([tk EXCEPT !.resp = "none"], "w_created"))

\* database.js 974-975: both DELETEs are settled, the timer of 2000 ms is set
\* and awaited
WipeAfterDeletes(tk) == [tk EXCEPT !.pc = "w_wait", !.resp = "none"]

\* database.js 965-975: the DELETE of articles answered or was rejected (its
\* own try/catch)
WipeDeletedArticles(t) ==
  /\ tasks[t].pc = "w_delA"
  /\ tasks[t].resp \in Outcomes
  /\ tasks' = [tasks EXCEPT ![t] = WipeAfterDeletes(Logged(tasks[t], "articles returned"))]
  /\ UNCHANGED <<netVars, listeners, isOnline, syncEnabled, timers, currentUrl, dbInstance,
                 syncVars, storage, rxdb>>

\* database.js 975-977: the timer fired, createCouchDBDatabases() is called
WipeSettled(t) ==
  /\ tasks[t].pc = "w_wait"
  /\ tasks' = [tasks EXCEPT ![t] = CreateCall(Push(Logged(tasks[t], "settled"), "w_created"))]
  /\ UNCHANGED <<netVars, listeners, isOnline, syncEnabled, timers, currentUrl, dbInstance,
                 syncVars, storage, rxdb>>

\* database.js 977-981: createCouchDBDatabases() returned (its result is only
\* logged), initDatabase() is awaited
WipeCreated(t) ==
  /\ tasks[t].pc = "w_created"
  /\ tasks' = [tasks EXCEPT ![t] = InitCall(Push(tasks[t], "w_gotdb"))]
  /\ UNCHANGED <<netVars, listeners, isOnline, syncEnabled, timers, currentUrl, dbInstance,
                 syncVars, storage, rxdb>>

\* database.js 981-988: initDatabase() resolved, or it threw and the catch
\* returns { success: false }
WipeGotDb(t) ==
  /\ tasks[t].pc = "w_gotdb"
  /\ tasks' = [tasks EXCEPT ![t] =
       Return(tasks[t], IF tasks[t].res = "throw" THEN "failure" ELSE "success")]
  /\ UNCHANGED <<netVars, listeners, isOnline, syncEnabled, timers, currentUrl, dbInstance,
                 syncVars, storage, rxdb>>

\* ------------------------------------------------------------ restart
\* database.js 16-35: the process is killed and started again: the module state
\* has its initial values, the memory store is gone and the Durable Cache is
\* what it was.  The content of the store that is gone stays recorded in its
\* slot of rxdb (as a destroyed instance no variable refers to) so that the new
\* process can be compared with the old one.
Restart ==
  /\ dbInstance # NoDb
  /\ NextDb <= MaxDbs
  /\ notifQ' = <<>>
  /\ listeners' = <<>>
  /\ isOnline' = FALSE
  /\ syncEnabled' = TRUE
  /\ currentUrl' = NoUrl
  /\ dbInstance' = NoDb
  /\ businessReplication' = 0
  /\ articleReplication' = 0
  /\ sessions' = [i \in 1..MaxSessions |-> NoSession]
  /\ timers' = [k \in TimerKinds |-> 0]
  /\ tasks' = [t \in TaskIds |-> Idle]
  /\ rxdb' = [d \in 1..MaxDbs |->
               IF rxdb[d].status = "open" THEN [rxdb[d] EXCEPT !.status = "destroyed"]
               ELSE rxdb[d]]
  /\ UNCHANGED <<net, storage>>

\* ------------------------------------------------------------ the system
\* the persisted snapshot a previous run of the app left behind
Docs(n) == [i \in 1..n |-> [id |-> i, name |-> 1]]

Init ==
  /\ net \in BOOLEAN
  /\ notifQ = <<>>
  /\ listeners = <<>>
  /\ isOnline = FALSE
  /\ syncEnabled = TRUE
  /\ currentUrl = NoUrl
  /\ dbInstance = NoDb
  /\ businessReplication = 0
  /\ articleReplication = 0
  /\ sessions = [i \in 1..MaxSessions |-> NoSession]
  /\ \E n \in 0..MaxDocs :
       storage = [k \in {COUCHDB_URL_KEY, BUSINESSES_KEY, ARTICLES_KEY} |->
                    IF k = COUCHDB_URL_KEY THEN NoUrl
                    ELSE IF k = BUSINESSES_KEY THEN [present |-> n > 0, docs |-> Docs(n)]
                    ELSE [present |-> FALSE, docs |-> <<>>]]
  /\ rxdb = [d \in 1..MaxDbs |-> NoStore]
  /\ timers = [k \in TimerKinds |-> 0]
  /\ tasks = [t \in TaskIds |-> Idle]

TaskStep(t) ==
  \/ DetectGot(t) \/ DetectSavedProbed(t) \/ DetectProbed(t) \/ DetectSaved(t)
  \/ StartSyncBusinessChecked(t) \/ StartSyncArticleChecked(t)
  \/ InitCreated(t) \/ InitLoadedBusinesses(t) \/ InitLoadedArticles(t)
  \/ InitFetched(t) \/ InitDetected(t) \/ InitSynced(t)
  \/ ListenerDetected(t) \/ Dropped(t)
  \/ ForceDetected(t) \/ ForceGotDb(t) \/ ForceSynced(t)
  \/ EnableGotDb(t) \/ EnableDetected(t)
  \/ PushFetched(t) \/ PushDetected(t) \/ PushGotDb(t) \/ PushSynced(t)
  \/ ResetRemovedBusinesses(t) \/ ResetRemovedArticles(t)
  \/ ResetRemovedUrl(t) \/ ResetDestroyed(t)
  \/ FlushFound(t) \/ FlushWritten(t)
  \/ AddGotDb(t) \/ FindGotDb(t) \/ FindFound(t) \/ UpdateModified(t)
  \/ ArticleRemoved(t) \/ BusinessRemoved(t) \/ BusinessDeleteGotDb(t) \/ CrudSaved(t)
  \/ LookupGotDb(t) \/ LookupFound(t)
  \/ SyncStorageGotDb(t) \/ SyncStorageFoundBusinesses(t) \/ SyncStorageFoundArticles(t)
  \/ SyncStorageWroteBusinesses(t) \/ SyncStorageWroteArticles(t)
  \/ CreateDetected(t) \/ CreateRootAnswered(t) \/ CreatePutBusinesses(t)
  \/ CreatePutArticles(t)
  \/ WipeRemovedBusinesses(t) \/ WipeRemovedArticles(t) \/ WipeRemovedUrl(t)
  \/ WipeDestroyed(t) \/ WipeDetected(t) \/ WipeDeletedBusinesses(t)
  \/ WipeDeletedArticles(t) \/ WipeSettled(t) \/ WipeCreated(t) \/ WipeGotDb(t)
  \/ Respond(t) \/ Reap(t)

Next ==
  \/ NetChange \/ NetRepeat \/ Notify
  \/ CallInitDatabase \/ CallForceSyncNow \/ CallPushLocalData
  \/ CallCleanupAndReset \/ CallClearAllData \/ CallSyncStorage \/ Restart
  \/ CallCreateDatabases \/ CallPermanentlyDelete
  \/ \E i \in 1..MaxSessions : SessionSent(i) \/ SessionReceived(i) \/ SessionError(i)
  \/ \E c \in Colls, d \in 1..MaxDbs : TimerFlush(c, d)
  \/ TimerForce
  \/ \E c \in Colls : \E doc \in DocsOf(c) : CallAdd(c, doc) \/ CallUpdate(c, doc)
  \/ \E id \in Ids : CallDeleteArticle(id) \/ \E d \in 1..MaxDbs : CallDeleteBusiness(d, id)
  \/ \E op \in LookupOps, key \in Ids : CallLookup(op, key)
  \/ \E e \in BOOLEAN : CallSetSyncEnabled(e)
  \/ \E t \in TaskIds : TaskStep(t)

Spec == Init /\ [][Next]_vars


\* ------------------------------------------------------------ scenarios
\* BusinessScreen.js 79: the screen initialises the database when it mounts;
\* no other initDatabase() call is made while that one runs
Boot ==
  /\ dbInstance = NoDb
  /\ ~InitInFlight
  /\ CallInitDatabase

\* BusinessScreen.js 450-453: the Push Local Data button, pressed once the
\* database is there
PushPressed ==
  /\ dbInstance # NoDb
  /\ CallPushLocalData

DetectStep(t) ==
  \/ DetectGot(t) \/ DetectSavedProbed(t) \/ DetectProbed(t) \/ DetectSaved(t)

StartStep(t) ==
  \/ StartSyncBusinessChecked(t) \/ StartSyncArticleChecked(t)

InitStep(t) ==
  \/ InitCreated(t) \/ InitLoadedBusinesses(t) \/ InitLoadedArticles(t)
  \/ InitFetched(t) \/ InitDetected(t) \/ InitSynced(t)

ListenerStep(t) ==
  \/ ListenerDetected(t) \/ Dropped(t)

PushStep(t) ==
  \/ PushFetched(t) \/ PushDetected(t) \/ PushGotDb(t) \/ PushSynced(t)

FlushStep(t) ==
  \/ FlushFound(t) \/ FlushWritten(t)

ResetStep(t) ==
  \/ ResetRemovedBusinesses(t) \/ ResetRemovedArticles(t)
  \/ ResetRemovedUrl(t) \/ ResetDestroyed(t)

\* BusinessScreen.js 28, 33: the reset operations the screen imports, called on
\* a database that is there
\* the app is started once
FirstBoot ==
  /\ rxdb[1].status = "none"
  /\ Boot

CleanupPressed ==
  /\ dbInstance # NoDb
  /\ CallCleanupAndReset

ClearPressed ==
  /\ dbInstance # NoDb
  /\ CallClearAllData

\* The app boots once and connectivity comes and goes: the listener of
\* setupNetworkMonitoring is the only caller of discovery and startSync
\* besides the boot itself.
NextConnectivity ==
  \/ NetChange \/ NetRepeat \/ Notify \/ Boot
  \/ \E t \in TaskIds :
       \/ DetectStep(t) \/ StartStep(t) \/ InitStep(t) \/ ListenerStep(t)
       \/ Respond(t) \/ Reap(t)

SpecConnectivity == Init /\ [][NextConnectivity]_vars

\* The same, with the user pressing Push Local Data.
NextPush ==
  \/ NetChange \/ Notify \/ Boot \/ PushPressed
  \/ \E t \in TaskIds :
       \/ DetectStep(t) \/ StartStep(t) \/ InitStep(t) \/ ListenerStep(t)
       \/ PushStep(t) \/ Respond(t) \/ Reap(t)

SpecPush == Init /\ [][NextPush]_vars

\* Connectivity comes and goes while the user resets the local data; the app
\* is not initialised again after the reset.
NextReset ==
  \/ NetChange \/ Notify \/ FirstBoot \/ CleanupPressed \/ ClearPressed
  \/ \E t \in TaskIds :
       \/ DetectStep(t) \/ StartStep(t) \/ InitStep(t) \/ ListenerStep(t)
       \/ ResetStep(t) \/ Respond(t) \/ Reap(t)

SpecReset == Init /\ [][NextReset]_vars

\* The app is started once; the sessions the boot opens emit their events, the
\* timers they set run, and the user may press Cleanup.
NextEvents ==
  \/ FirstBoot \/ CleanupPressed
  \/ \E i \in 1..MaxSessions : SessionSent(i) \/ SessionReceived(i) \/ SessionError(i)
  \/ \E c \in Colls, d \in 1..MaxDbs : TimerFlush(c, d)
  \/ \E t \in TaskIds :
       \/ DetectGot(t) \/ DetectProbed(t) \/ DetectSaved(t)
       \/ StartStep(t) \/ InitStep(t) \/ FlushStep(t) \/ ResetStep(t)
       \/ Respond(t) \/ Reap(t)

SpecEvents == Init /\ [][NextEvents]_vars

CrudStep(t) ==
  \/ AddGotDb(t) \/ FindGotDb(t) \/ FindFound(t) \/ UpdateModified(t)
  \/ ArticleRemoved(t) \/ BusinessRemoved(t) \/ BusinessDeleteGotDb(t) \/ CrudSaved(t)

ForceStep(t) == ForceDetected(t) \/ ForceGotDb(t) \/ ForceSynced(t)

\* BusinessScreen.js 288, 340, EditBusinessModal.js 37, ArticleScreen.js 100,
\* 139, EditArticleModal.js 89: the screens add, edit and delete once the
\* database is there; the business deleted is one the screen lists
CrudPressed ==
  /\ dbInstance # NoDb
  /\ \/ \E c \in Colls : \E doc \in DocsOf(c) : CallAdd(c, doc) \/ CallUpdate(c, doc)
     \/ \E id \in Ids : CallDeleteArticle(id) \/ CallDeleteBusiness(dbInstance, id)

\* the app is started where there is no network
OfflineBoot == ~net /\ FirstBoot

\* The app is started once, offline, and the user adds, edits and deletes
\* businesses and articles.
NextCrud ==
  \/ OfflineBoot \/ CrudPressed
  \/ \E t \in TaskIds :
       \/ InitCreated(t) \/ InitLoadedBusinesses(t) \/ InitLoadedArticles(t) \/ InitFetched(t)
       \/ FlushStep(t) \/ CrudStep(t) \/ Reap(t)

SpecCrud == Init /\ [][NextCrud]_vars

\* ArticleScreen.js 100, 139: the article screen adds and deletes articles
\* once the database is there, one operation at a time
ArticlePressed ==
  /\ dbInstance # NoDb
  /\ \A t \in TaskIds : tasks[t].op \notin {"add", "deleteArticle"}
  /\ \/ \E doc \in ArticleDocs : CallAdd("articles", doc)
     \/ \E id \in Ids : CallDeleteArticle(id)

\* The app is started once and the user adds and deletes articles while the
\* connectivity comes and goes.  The scenario ends before NetInfo delivers what
\* it has queued: a change of connectivity is known to the manager only when
\* the queue is empty, and that is when no listener was registered.
NextDelete ==
  \/ NetChange \/ FirstBoot \/ ArticlePressed \/ TimerForce
  \/ \E t \in TaskIds :
       \/ DetectGot(t) \/ DetectProbed(t) \/ DetectSaved(t)
       \/ StartStep(t) \/ InitStep(t) \/ ForceStep(t)
       \/ FlushStep(t)
       \/ AddGotDb(t) \/ FindGotDb(t) \/ FindFound(t) \/ ArticleRemoved(t) \/ CrudSaved(t)
       \/ Respond(t) \/ Reap(t)

SpecDelete == Init /\ [][NextDelete]_vars

\* ArticleScreen.js 74: a screen looks entities up; nothing has initialised
\* the database before it does
LookupPressed == \E op \in LookupOps, key \in Ids : CallLookup(op, key)

\* The first calls of the process are lookups.
NextLookup ==
  \/ LookupPressed \/ Notify
  \/ \E t \in TaskIds :
       \/ DetectGot(t) \/ DetectProbed(t) \/ DetectSaved(t)
       \/ StartStep(t) \/ InitStep(t) \/ LookupGotDb(t) \/ LookupFound(t)
       \/ Respond(t) \/ Reap(t)

SpecLookup == Init /\ [][NextLookup]_vars

SyncStorageStep(t) ==
  \/ SyncStorageGotDb(t) \/ SyncStorageFoundBusinesses(t) \/ SyncStorageFoundArticles(t)
  \/ SyncStorageWroteBusinesses(t) \/ SyncStorageWroteArticles(t)

\* BusinessScreen.js 143, 288, ArticleScreen.js 43: the screens call
\* syncStorageWithDatabase() and addBusiness() without waiting for an
\* initDatabase() to have completed; the device is offline
OfflineCalls ==
  /\ ~net
  /\ \/ CallSyncStorage
     \/ \E doc \in BusinessDocs : CallAdd("businesses", doc)

\* The first calls of the process, made offline, are adds and
\* syncStorageWithDatabase.
NextFlush ==
  \/ OfflineCalls \/ Notify
  \/ \E t \in TaskIds :
       \/ InitCreated(t) \/ InitLoadedBusinesses(t) \/ InitLoadedArticles(t) \/ InitFetched(t)
       \/ AddGotDb(t) \/ CrudSaved(t) \/ FlushStep(t) \/ SyncStorageStep(t) \/ Reap(t)

SpecFlush == Init /\ [][NextFlush]_vars

\* the articles session pulls its first batch from the remote
ArticleReceived ==
  \E i \in 1..MaxSessions :
    /\ sessions[i].coll = "articles"
    /\ rxdb[sessions[i].db].articles = {}
    /\ SessionReceived(i)

\* EditArticleModal.js 89: the user saves edits of an article while the timer
\* of a replication event of the articles is pending
UpdatePressed ==
  /\ dbInstance # NoDb
  /\ timers[FlushTimer("articles", dbInstance)] > 0
  /\ \E doc \in ArticleDocs : CallUpdate("articles", doc)

\* The app is started once; the articles session receives one batch and the
\* user edits the article before the flush timer of the batch has run.
NextUpdates ==
  \/ FirstBoot \/ ArticleReceived \/ UpdatePressed
  \/ \E d \in 1..MaxDbs : TimerFlush("articles", d)
  \/ \E t \in TaskIds :
       \/ DetectGot(t) \/ DetectProbed(t) \/ DetectSaved(t)
       \/ StartStep(t) \/ InitStep(t) \/ FlushStep(t)
       \/ FindGotDb(t) \/ FindFound(t) \/ UpdateModified(t) \/ CrudSaved(t)
       \/ Respond(t) \/ Reap(t)

SpecUpdates == Init /\ [][NextUpdates]_vars

\* the app is started, or started again, where there is no network
OfflineStart == ~net /\ Boot

\* the screens add entities and call syncStorageWithDatabase() once the
\* database is there
AddPressed ==
  /\ dbInstance # NoDb
  /\ \/ CallSyncStorage
     \/ \E c \in Colls : \E doc \in DocsOf(c) : CallAdd(c, doc)

\* The app is used offline, killed and started again.
NextRestart ==
  \/ OfflineStart \/ AddPressed \/ Restart
  \/ \E t \in TaskIds :
       \/ InitCreated(t) \/ InitLoadedBusinesses(t) \/ InitLoadedArticles(t) \/ InitFetched(t)
       \/ AddGotDb(t) \/ CrudSaved(t) \/ FlushStep(t) \/ SyncStorageStep(t) \/ Reap(t)

SpecRestart == Init /\ [][NextRestart]_vars

\* Callers call initDatabase() whenever they need the database, whether or not
\* an earlier call has completed.
NextInit ==
  \/ CallInitDatabase \/ Notify
  \/ \E t \in TaskIds :
       \/ DetectGot(t) \/ DetectProbed(t) \/ DetectSaved(t)
       \/ StartStep(t) \/ InitStep(t) \/ Respond(t) \/ Reap(t)

SpecInit == Init /\ [][NextInit]_vars

\* BusinessScreen.js 598: the sync toggle of the screen, used once the database
\* is there
TogglePressed ==
  /\ dbInstance # NoDb
  /\ \E e \in BOOLEAN : CallSetSyncEnabled(e)

\* The app is started once and the user switches sync off and on.
NextEnable ==
  \/ FirstBoot \/ TogglePressed
  \/ \E t \in TaskIds :
       \/ DetectStep(t) \/ StartStep(t) \/ InitStep(t)
       \/ EnableGotDb(t) \/ EnableDetected(t) \/ Dropped(t)
       \/ Respond(t) \/ Reap(t)

SpecEnable == Init /\ [][NextEnable]_vars

\* ------------------------------------------------------------ properties
DetectLabels == {"d_get", "d_probeSaved", "d_probe", "d_set"}

\* the sessions of collection c that were created and not cancelled
SessionsOf(ss, c) == {i \in 1..MaxSessions : ss[i].coll = c}
OnePerCollection(ss) == \A c \in Colls : Cardinality(SessionsOf(ss, c)) <= 1

\* the step is one of task t
Stepped(t) == tasks'[t] # tasks[t]

\* the step delivers the oldest notification to the listeners
Delivered == notifQ # <<>> /\ Len(notifQ') < Len(notifQ)

\* C1: at every moment each collection has at most one active replication
\* session, whatever the interleaving of the callers of startSync
C1_OneSessionPerCollection ==
  OnePerCollection(sessions)

\* the detections the listeners start in this step
NewDiscoveries ==
  {t \in TaskIds : tasks[t].op = "idle" /\ tasks'[t].op = "listener" /\ tasks'[t].pc = "d_get"}

\* C2: with sync enabled, the notification of an offline-to-online transition
\* starts exactly one discovery and leaves at most one session per collection
C2_OneDiscoveryPerReconnect ==
  [][(Delivered /\ listeners # <<>> /\ syncEnabled
        /\ Head(notifQ).edge /\ Head(notifQ).connected)
       => (Cardinality(NewDiscoveries) = 1 /\ OnePerCollection(sessions'))]_vars

\* the listeners have been told that the device is offline, and it still is
OfflineDelivered == listeners # <<>> /\ notifQ = <<>> /\ ~net

\* C3: once the offline notification is delivered and for as long as the device
\* stays offline, no replication session is active
C3_NoSessionWhileOffline ==
  OfflineDelivered => \A i \in 1..MaxSessions : sessions[i] = NoSession

\* C4: a notification that repeats the connectivity state the manager already
\* holds starts no discovery and changes no session state
C4_RepeatedStateIsNoOp ==
  [][(Delivered /\ listeners # <<>> /\ Head(notifQ).connected = isOnline)
       => UNCHANGED <<syncVars, tasks, currentUrl, storage>>]_vars

\* C5: a persisted URL is the first URL a discovery probes, and when it answers
\* the discovery returns it and makes it the current URL with no candidate probed
C5_SavedUrlFirst ==
  [][\A t \in TaskIds :
       /\ (tasks[t].pc = "d_get" /\ Stepped(t) /\ storage[COUCHDB_URL_KEY] # NoUrl)
            => /\ tasks'[t].pc = "d_probeSaved"
               /\ tasks'[t].resp = "pending"
               /\ tasks'[t].probes = <<storage[COUCHDB_URL_KEY]>>
       /\ (tasks'[t].pc \in {"d_probe", "d_set"} /\ tasks'[t].saved # NoUrl)
            => Head(tasks'[t].probes) = tasks'[t].saved
       /\ (tasks[t].pc = "d_probeSaved" /\ tasks[t].resp = "ok" /\ Stepped(t))
            => /\ tasks[t].probes = <<tasks[t].saved>>
               /\ tasks'[t].pc = Head(tasks[t].ret)
               /\ tasks'[t].res = "value"
               /\ tasks'[t].url = tasks[t].saved
               /\ currentUrl' = tasks[t].saved
               /\ UNCHANGED storage]_vars

C5_SavedUrlAnswered ==
  \E t \in TaskIds :
    /\ tasks[t].op = "listener"
    /\ tasks[t].pc = "d_probeSaved"
    /\ tasks[t].resp = "ok"
    /\ tasks[t].saved = possibleUrls[NumUrls]

\* the candidates a discovery has probed so far
Candidates(tk) == IF tk.saved # NoUrl THEN Tail(tk.probes) ELSE tk.probes
InOrder(tk) ==
  LET c == Candidates(tk)
  IN /\ Len(c) = tk.idx
     /\ \A k \in 1..Len(c) : c[k] = possibleUrls[k]

Failing(t) ==
  \/ tasks[t].pc = "d_get"
  \/ tasks[t].pc \in {"d_probeSaved", "d_probe"} /\ tasks[t].resp \in {"status", "error"}
Exhausted(t) ==
  /\ tasks[t].pc = "d_probe"
  /\ tasks[t].idx = NumUrls
  /\ tasks[t].resp \in {"status", "error"}

\* C7: a discovery no URL answers writes neither the current URL nor the
\* persisted URL, and when the last candidate has failed it returns null
\* without raising
C7_NothingAnswers ==
  [][\A t \in TaskIds :
       (Failing(t) /\ Stepped(t))
         => /\ UNCHANGED <<currentUrl, storage>>
            /\ (tasks'[t].pc \notin DetectLabels) <=> Exhausted(t)
            /\ Exhausted(t) => /\ tasks'[t].pc = Head(tasks[t].ret)
                               /\ tasks'[t].res = "value"
                               /\ tasks'[t].url = NoUrl]_vars

C7_ReturnedNull ==
  \E t \in TaskIds :
    /\ tasks[t].pc = "l_detected"
    /\ tasks[t].res = "value"
    /\ tasks[t].url = NoUrl
    /\ currentUrl # NoUrl
    /\ storage[COUCHDB_URL_KEY] = currentUrl

\* the step is a call of startSync by task t
CallSites == {"i_detected", "l_detected", "f_gotdb", "e_detected", "p_gotdb"}
Entered == {"s_chkB", "i_synced", "l_synced", "f_synced", "e_synced", "p_synced"}
StartSyncInvoked(t) == tasks[t].pc \in CallSites /\ tasks'[t].pc \in Entered

\* C8: every call of startSync cancels the sessions that exist when it is made,
\* whatever isOnline, syncEnabled and the current URL are
C8_StartSyncCancelsFirst ==
  [][\A t \in TaskIds :
       StartSyncInvoked(t)
         => \A i \in 1..MaxSessions : sessions[i] # NoSession => sessions'[i] = NoSession]_vars

\* the existence check of a startSync call has failed
CheckFailed(t) ==
  \/ tasks[t].pc = "s_chkB" /\ tasks[t].resp = "error"
  \/ tasks[t].pc = "s_chkA" /\ tasks[t].resp \in {"status", "error"}
  \/ tasks[t].pc = "s_chkA" /\ tasks[t].resp = "ok" /\ tasks[t].r1 # "ok"

C11_NoSessionOnDestroyedStore ==
  \A i \in 1..MaxSessions :
    sessions[i] # NoSession => rxdb[sessions[i].db].status # "destroyed"

\* the Durable Cache holds neither snapshot nor the last good URL
CacheCleared ==
  /\ ~storage[BUSINESSES_KEY].present
  /\ ~storage[ARTICLES_KEY].present
  /\ storage[COUCHDB_URL_KEY] = NoUrl

\* cleanupAndReset has removed the three entries
CleanupCleared ==
  \E t \in TaskIds : tasks[t].op = "cleanup" /\ tasks[t].pc \in {"r_destroy", "done"}

\* C12: once cleanupAndReset has cleared the Durable Cache its entries stay
\* absent (no initialisation and no CRUD call follows in these runs)
C12_CacheStaysCleared ==
  CleanupCleared => CacheCleared

\* the step in which a flush started by a timer ends
FlushEnds(t) ==
  tasks[t].op = "flush" /\ tasks[t].pc \in {"fl_find", "fl_set"} /\ tasks'[t].pc = "done"

\* a batch event sets one timer, the one of the flush of the collection and
\* instance of a session that is there; when the batch was received, it is the
\* collection the batch was written to
EventSetsTimer ==
  \A k \in TimerKinds :
    (timers'[k] > timers[k] /\ k.kind = "flush")
      => /\ timers' = [timers EXCEPT ![k] = @ + 1]
         /\ \E i \in 1..MaxSessions :
              sessions[i] # NoSession /\ sessions[i].coll = k.coll /\ sessions[i].db = k.db
         /\ \A d \in 1..MaxDbs, c \in Colls :
              rxdb'[d][c] # rxdb[d][c] => (c = k.coll /\ d = k.db)

\* a timer goes only by running, and the flush it starts is the flush of its
\* collection and instance
TimerStartsFlush ==
  \A k \in TimerKinds :
    timers'[k] < timers[k]
      => /\ timers' = [timers EXCEPT ![k] = @ - 1]
         /\ k.kind = "flush" =>
              \E t \in TaskIds :
                /\ tasks[t].op = "idle"
                /\ tasks'[t].op = "flush" /\ tasks'[t].pc = "fl_find"
                /\ tasks'[t].coll = k.coll /\ tasks'[t].db = k.db

\* the steps of a flush: the list read is the content of its collection, the
\* write replaces the entry of that collection by the list and touches no
\* other entry
FlushIsWholesale ==
  \A t \in TaskIds :
    /\ (tasks[t].pc = "fl_find" /\ tasks'[t].pc = "fl_set")
         => /\ tasks'[t].snap = ToList(rxdb[tasks[t].db][tasks[t].coll])
            /\ tasks'[t].coll = tasks[t].coll
            /\ UNCHANGED <<storage, rxdb>>
    /\ (tasks[t].pc = "fl_set" /\ Stepped(t))
         => /\ tasks'[t].res \in {"saved", "failed"}
            /\ UNCHANGED rxdb
            /\ tasks'[t].res = "failed" => UNCHANGED storage
            /\ tasks'[t].res = "saved" =>
                 storage' = [storage EXCEPT
                   ![IF tasks[t].coll = "businesses" THEN BUSINESSES_KEY ELSE ARTICLES_KEY] =
                      [present |-> TRUE, docs |-> tasks[t].snap]]

C14_StatusShowsErrored ==
  \A i \in {businessReplication, articleReplication} \ {0} :
    sessions[i].err
      => GetSyncStatus(sessions) # GetSyncStatus([sessions EXCEPT ![i].err = FALSE])

\* ------------------------------------------------------------ CRUD properties
CrudOps == {"add", "update", "deleteArticle", "deleteBusiness"}

\* the step is one task t takes in its own code
Moved(t) == tasks'[t].pc # tasks[t].pc

\* task t is at the await of its Local Store mutation and the mutation is about
\* to fail: the id to add is there, the entity to update or remove is not
MutationFails(t) ==
  LET tk == tasks[t]
      st == rxdb[tk.db]
  IN /\ tk.op \in CrudOps
     /\ \/ tk.pc = "c_gotdb" /\ tk.op = "add" /\ Found(st[tk.coll], tk.arg) # {}
        \/ tk.pc = "c_find" /\ tk.op = "update" /\ Found(st[tk.coll], tk.arg) = {}
        \/ tk.pc \in {"c_mutate", "c_remove"} /\ Found(st[tk.coll], tk.arg) = {}

\* the operation of task t has raised to its caller
Raised(tk) == tk.pc = "done" /\ tk.res = "throw"

\* C15: when the Local Store mutation of a CRUD operation fails, the operation
\* raises to its caller without calling the flush, and the step leaves the
\* Local Store and the Durable Cache as they were
C15_FailedMutationRaises ==
  [][\A t \in TaskIds :
       MutationFails(t) /\ Moved(t)
         => Raised(tasks'[t]) /\ rxdb' = rxdb /\ storage' = storage]_vars

\* an update of an absent entity and an add of a present id have raised
C15_MutationFailed ==
  \E t, u \in TaskIds :
    /\ Raised(tasks[t]) /\ tasks[t].op = "update"
    /\ Raised(tasks[u]) /\ tasks[u].op = "add"

\* the flush called by the CRUD operation of task t has just failed, or has
\* failed and the operation is about to return
SaveFailed(tk) == tk.op \in CrudOps /\ tk.pc = "c_saved" /\ tk.res = "failed"

\* the mutation task tk made is in the Local Store
MutationKept(tk) ==
  LET coll == rxdb[tk.db][tk.coll]
  IN IF tk.op \in {"add", "update"} THEN tk.arg \in coll ELSE Found(coll, tk.arg) = {}

\* C16: when the flush fails inside a CRUD operation, the failing step and the
\* return leave the Local Store and the Durable Cache as they were, the
\* mutation is in the Local Store (when no other call has touched the
\* collection), and the operation returns its value to the caller
C16_FailedFlushIsSwallowed ==
  [][\A t \in TaskIds :
       /\ SaveFailed(tasks'[t]) /\ Moved(t)
            => rxdb' = rxdb /\ storage' = storage
       /\ SaveFailed(tasks[t]) /\ Moved(t)
            => /\ tasks'[t].pc = "done" /\ tasks'[t].res = "value"
               /\ rxdb' = rxdb /\ storage' = storage
               /\ tasks[t].alone => MutationKept(tasks[t])]_vars

\* an add whose flush failed is about to return: the business is in the Local
\* Store and not in the Durable Cache
C16_AddedNotFlushed ==
  \E t \in TaskIds :
    /\ SaveFailed(tasks[t]) /\ tasks[t].op = "add" /\ tasks[t].coll = "businesses"
    /\ tasks[t].alone /\ tasks[t].arg \in rxdb[tasks[t].db].businesses
    /\ ~storage[BUSINESSES_KEY].present

\* the flush of the CRUD operation of task tk succeeded and nothing interleaved
SavedAlone(tk) == tk.op \in CrudOps /\ tk.pc = "c_saved" /\ tk.res = "saved" /\ tk.alone

\* the Durable Cache snapshot of collection c in st is the content of
\* instance db in rx
CacheIsStore(st, rx, c, db) ==
  st[KeyOf(c)] = [present |-> TRUE, docs |-> ToList(rx[db][c])]

CrudOrigin == CrudOps \cup {"deleteSync"}

\* the step is one in which task t sends a remote request (a health probe or
\* an existence check)
Requests(t) == tasks'[t].resp = "pending" /\ tasks[t].resp # "pending"

\* C18: while the device is offline (and NetInfo has nothing left to tell the
\* manager about it) no CRUD operation sends a remote request
C18_NoRequestWhileOffline ==
  [][\A t \in TaskIds :
       tasks'[t].op \in CrudOrigin /\ Requests(t) => ~(~net /\ notifQ = <<>>)]_vars

\* C19: no step of a CRUD operation starts or stops a replication session or
\* enters endpoint discovery
C19_NoPropagationAction ==
  [][\A t \in TaskIds :
       tasks'[t].op \in CrudOrigin /\ tasks'[t] # tasks[t]
         => /\ UNCHANGED syncVars
            /\ tasks'[t].pc \in DetectLabels => tasks[t].pc \in DetectLabels]_vars
\* the documents of every instance of the Local Store
StoreContent(rx) == [d \in 1..MaxDbs |-> [c \in Colls |-> rx[d][c]]]

\* C20: no step of a lookup reads the Durable Cache (awaits a getItem of a
\* snapshot), sends a remote request, or changes the documents of the Local
\* Store, the Durable Cache or the session state
C20_LookupsOnlyRead ==
  [][\A t \in TaskIds :
       tasks'[t].op \in LookupOps /\ tasks'[t] # tasks[t]
         => /\ tasks'[t].pc \notin {"i_loadB", "i_loadA"}
            /\ ~Requests(t)
            /\ StoreContent(rxdb') = StoreContent(rxdb)
            /\ storage' = storage
            /\ UNCHANGED syncVars]_vars
\* ------------------------------------------------------------ flush properties
\* the labels at which a task awaits a setItem of a collection's snapshot, and
\* what it is writing there
WriteLabels == {"fl_set", "y_setB", "y_setA"}
WriteColl(tk) ==
  CASE tk.pc = "fl_set" -> tk.coll
    [] tk.pc = "y_setB" -> "businesses"
    [] OTHER -> "articles"
WriteSnap(tk) == IF tk.pc = "y_setA" THEN tk.snap2 ELSE tk.snap

\* the Local Store: the instance the process holds, or the one being
\* initialised for task tk while there is none yet
TheStore(tk) == IF dbInstance # NoDb THEN dbInstance ELSE tk.db

\* C21: a step that writes a collection's Durable Cache entry is the setItem of
\* a task and stores the snapshot that task read; when the collection the task
\* read has the content it read (and, for a CRUD operation, nothing interleaved
\* since its mutation), the entry equals the Local Store's collection afterwards
C21_WriteIsWholesale ==
  [][/\ \A c \in Colls :
          storage'[KeyOf(c)] # storage[KeyOf(c)] /\ storage'[KeyOf(c)].present
            => \E t \in TaskIds :
                 /\ tasks[t].pc \in WriteLabels /\ Moved(t) /\ WriteColl(tasks[t]) = c
                 /\ storage'[KeyOf(c)].docs = WriteSnap(tasks[t])
     /\ \A t \in TaskIds :
          LET tk == tasks[t]
              c == WriteColl(tk)
          IN /\ tk.pc \in WriteLabels /\ Moved(t) /\ tasks'[t].res \notin {"failed", "failure"}
             /\ WriteSnap(tk) = ToList(rxdb[tk.db][c])
             /\ tk.op \in CrudOps => tk.alone
             => CacheIsStore(storage', rxdb', c, TheStore(tk))]_vars
\* after the step nothing but task t is running and no flush timer is pending
LastToComplete(t) ==
  /\ \A u \in TaskIds \ {t} : tasks'[u].pc \in {"idle", "done"}
  /\ \A k \in TimerKinds : timers'[k] = 0

\* C22: when the write of the flush of an article update lands and every other
\* flush and operation has completed (the updates were issued while the flush
\* timer of a replication event was pending, and that timer has run), the
\* Durable Cache holds the articles of the Local Store, that is the last update
C22_CacheReflectsLastUpdate ==
  [][\A t \in TaskIds :
       /\ tasks[t].op = "update"
       /\ tasks[t].pc = "fl_set" /\ tasks[t].coll = "articles"
       /\ Moved(t) /\ tasks'[t].res = "saved"
       /\ LastToComplete(t)
       => CacheIsStore(storage', rxdb', "articles", dbInstance)]_vars
\* task t has run loadPersistedData on the fresh instance of a process that
\* was started again
Reloaded(t) == tasks[t].op = "init" /\ tasks[t].pc = "i_fetch" /\ tasks[t].db > 1

\* both collections of instance d were flushed: the Durable Cache holds their
\* snapshots
Flushed(d) ==
  /\ CacheIsStore(storage, rxdb, "businesses", d)
  /\ CacheIsStore(storage, rxdb, "articles", d)

Created == {d \in 1..MaxDbs : rxdb[d].status # "none"}

\* C24: with no reset, at most one Local Store instance is created, every
\* initDatabase call that has returned has returned that instance, and the
\* connectivity listener is registered at most once
C24_SingleInstance ==
  /\ Cardinality(Created) <= 1
  /\ Len(listeners) <= 1
  /\ \A t \in TaskIds : tasks[t].pc \in {"i_loadB", "i_loadA", "i_fetch"} => tasks[t].db = 1
\* ------------------------------------------------------------ status reporting
\* the sync-toggling operations
ToggleOps == {"force", "enable", "push"}

\* C25: no sync-toggling operation ends with a rejected promise that nothing
\* handles, or by raising to its caller
C25_NeverRaises ==
  \A t \in TaskIds :
    tasks[t].op \in ToggleOps /\ tasks[t].pc = "done"
      => tasks[t].res \notin {"rejected", "throw"}

\* ------------------------------------------------------------ contracts of the operations
\* the persisted snapshot of a previous run that had one article
Article1 == [id |-> 1, name |-> 1, qty |-> 1, selling_price |-> 1, business_id |-> 1]

InitStocked ==
  /\ net \in BOOLEAN
  /\ notifQ = <<>>
  /\ listeners = <<>>
  /\ isOnline = FALSE
  /\ syncEnabled = TRUE
  /\ currentUrl = NoUrl
  /\ dbInstance = NoDb
  /\ businessReplication = 0
  /\ articleReplication = 0
  /\ sessions = [i \in 1..MaxSessions |-> NoSession]
  /\ \E n \in 0..MaxDocs :
       storage = [k \in {COUCHDB_URL_KEY, BUSINESSES_KEY, ARTICLES_KEY} |->
                    IF k = COUCHDB_URL_KEY THEN NoUrl
                    ELSE IF k = BUSINESSES_KEY THEN [present |-> n > 0, docs |-> Docs(n)]
                    ELSE [present |-> TRUE, docs |-> <<Article1>>]]
  /\ rxdb = [d \in 1..MaxDbs |-> NoStore]
  /\ timers = [k \in TimerKinds |-> 0]
  /\ tasks = [t \in TaskIds |-> Idle]

\* ArticleScreen.js 43, 139: the article screen calls
\* syncStorageWithDatabase() when it mounts and deleteArticleWithSync() when
\* the user deletes, without waiting for an initDatabase() to have completed;
\* the device is offline
DeletePressed ==
  /\ ~net
  /\ \/ CallSyncStorage
     \/ CallDeleteArticle(Article1.id)

\* getArticleById is called for the article after a deleteArticleWithSync of
\* it has returned true
LookupAfterDelete ==
  \E t \in TaskIds :
    /\ tasks[t].op = "deleteArticle"
    /\ tasks[t].pc = "done"
    /\ tasks[t].res = "value"
    /\ CallLookup("getArticleById", Article1.id)

\* The first calls of the process, made offline, are deletes of an article
\* and syncStorageWithDatabase; a delete that returned true is followed by the
\* lookup of the article.
NextGone ==
  \/ DeletePressed \/ LookupAfterDelete \/ Notify
  \/ \E t \in TaskIds :
       \/ InitCreated(t) \/ InitLoadedBusinesses(t) \/ InitLoadedArticles(t) \/ InitFetched(t)
       \/ FindGotDb(t) \/ FindFound(t) \/ ArticleRemoved(t) \/ CrudSaved(t)
       \/ FlushStep(t) \/ SyncStorageStep(t) \/ LookupGotDb(t) \/ LookupFound(t) \/ Reap(t)

SpecGone == InitStocked /\ [][NextGone]_vars

\* C26: the getArticleById that follows a deleteArticleWithSync of the same id
\* that returned true finds no article (the calls of the scenario are all for
\* the id of Article1, and a lookup is called only after such a delete)
C26_DeletedIsGone ==
  \A u \in TaskIds :
    tasks[u].op = "getArticleById" /\ tasks[u].pc = "done" /\ tasks[u].res = "value"
      => tasks[u].snap = <<>>

\* C26, second half: a deleteArticleWithSync that finds no article returns
\* false and its step changes neither the Local Store nor the Durable Cache
C26_AbsentIsNoop ==
  [][\A t \in TaskIds :
       tasks[t].pc = "c_find" /\ tasks[t].op = "deleteArticle" /\ Moved(t)
       /\ rxdb[tasks[t].db].status = "open"
       /\ Found(rxdb[tasks[t].db].articles, tasks[t].arg) = {}
       => tasks'[t].res = "false" /\ rxdb' = rxdb /\ storage' = storage]_vars

\* EditArticleModal.js 89: the payload the user saves for the article
Edit1 == [Article1 EXCEPT !.name = 2]

\* ArticleScreen.js 43, EditArticleModal.js 89: the first calls of the process,
\* made offline, are syncStorageWithDatabase() and an updateArticleData()
UpdateFirst ==
  /\ ~net
  /\ \/ CallSyncStorage
     \/ /\ \A t \in TaskIds : tasks[t].op # "update"
        /\ CallUpdate("articles", Edit1)

\* what the caller can observe of the articles: the collection of the Local
\* Store the module holds and the entry of the Durable Cache
Observed == <<rxdb[dbInstance].articles, storage[ARTICLES_KEY]>>

\* updateArticleData() is called with the same payload after a call of it has
\* returned; the task keeps, in snap2, what was observable when it was called
UpdateAgain ==
  /\ \E t \in TaskIds : tasks[t].op = "update" /\ tasks[t].pc = "done" /\ tasks[t].res = "value"
  /\ FreeTask # 0
  /\ tasks' = [tasks EXCEPT ![FreeTask] =
       [InitCall(Push([NewTask("update") EXCEPT !.coll = "articles", !.arg = Edit1], "c_gotdb"))
          EXCEPT !.snap2 = Observed]]
  /\ UNCHANGED <<netVars, listeners, isOnline, syncEnabled, timers, currentUrl, dbInstance,
                 syncVars, storage, rxdb>>

\* The first calls of the process, made offline, are an update of the article
\* and syncStorageWithDatabase; an update that returned is applied again.
NextTwice ==
  \/ UpdateFirst \/ UpdateAgain \/ Notify
  \/ \E t \in TaskIds :
       \/ InitCreated(t) \/ InitLoadedBusinesses(t) \/ InitLoadedArticles(t) \/ InitFetched(t)
       \/ FindGotDb(t) \/ FindFound(t) \/ UpdateModified(t) \/ CrudSaved(t)
       \/ FlushStep(t) \/ SyncStorageStep(t) \/ Reap(t)

SpecTwice == InitStocked /\ [][NextTwice]_vars

\* the step in which a second application of the payload returns to its caller
SecondReturns(u) ==
  tasks[u].op = "update" /\ tasks[u].pc = "c_saved" /\ tasks[u].snap2 # <<>> /\ Moved(u)

\* C27: update is idempotent: when the second application of a payload
\* returns, the articles of the Local Store and the articles entry of the
\* Durable Cache are what they were after the first application
C27_UpdateIsIdempotent ==
  [][\A u \in TaskIds :
       SecondReturns(u) => /\ rxdb'[dbInstance'].articles = tasks[u].snap2[1]
                           /\ storage'[ARTICLES_KEY] = tasks[u].snap2[2]]_vars

\* C27, the Local Store alone
C27_StoreAfterTwice ==
  [][\A u \in TaskIds :
       SecondReturns(u) => rxdb'[dbInstance'].articles = tasks[u].snap2[1]]_vars

\* BusinessScreen.js 288: the business the user adds
Business2 == [id |-> 1, name |-> 2]

\* BusinessScreen.js 143, 288: the first calls of the process, made offline,
\* are syncStorageWithDatabase() and addBusiness() of the business
AddFirst ==
  /\ ~net
  /\ \/ CallSyncStorage
     \/ CallAdd("businesses", Business2)

\* getBusinessById is called for the business after the addBusiness of it has
\* returned
LookupAfterAdd ==
  \E t \in TaskIds :
    /\ tasks[t].op = "add"
    /\ tasks[t].pc = "done"
    /\ tasks[t].res = "value"
    /\ CallLookup("getBusinessById", Business2.id)

\* The first calls of the process, made offline, are the add of a business
\* and syncStorageWithDatabase; an add that returned is followed by the lookup
\* of the business.
NextAdded ==
  \/ AddFirst \/ LookupAfterAdd \/ Notify
  \/ \E t \in TaskIds :
       \/ InitCreated(t) \/ InitLoadedBusinesses(t) \/ InitLoadedArticles(t) \/ InitFetched(t)
       \/ AddGotDb(t) \/ CrudSaved(t)
       \/ FlushStep(t) \/ SyncStorageStep(t) \/ LookupGotDb(t) \/ LookupFound(t) \/ Reap(t)

SpecAdded == Init /\ [][NextAdded]_vars

\* C28: the getBusinessById that follows an addBusiness that returned finds
\* the business with the id and the name that were added (the calls of the
\* scenario are all for Business2, and a lookup is called only after such an
\* add; an add returns only when the id was not in the Local Store)
C28_AddedIsFound ==
  \A u \in TaskIds :
    tasks[u].op = "getBusinessById" /\ tasks[u].pc = "done" /\ tasks[u].res = "value"
      => tasks[u].snap = <<Business2>>

\* ArticleScreen.js 100, EditArticleModal.js 89: the articles the user adds and
\* the payloads the user saves: two ids, each with either of two businesses
MaxShelf == 2
ShelfDocs == [id : 1..MaxShelf, name : {1}, qty : {1}, selling_price : {1},
              business_id : 1..MaxShelf]

\* ArticleScreen.js 100, 139, EditArticleModal.js 89: the user adds, edits and
\* deletes articles once the database is there, one operation at a time
ShelfPressed ==
  /\ dbInstance # NoDb
  /\ \A t \in TaskIds : tasks[t].op \notin CrudOps
  /\ \/ \E doc \in ShelfDocs : CallAdd("articles", doc) \/ CallUpdate("articles", doc)
     \/ \E id \in 1..MaxShelf : CallDeleteArticle(id)

\* ArticleScreen.js 74: the screen lists the articles of a business
ShelfLookup ==
  /\ dbInstance # NoDb
  /\ \E b \in 1..MaxShelf : CallLookup("getArticlesByBusinessId", b)

\* The app is started once, offline; the user adds, edits and deletes articles
\* of two businesses and the screen lists the articles of a business.
NextShelf ==
  \/ OfflineBoot \/ ShelfPressed \/ ShelfLookup
  \/ \E t \in TaskIds :
       \/ InitCreated(t) \/ InitLoadedBusinesses(t) \/ InitLoadedArticles(t) \/ InitFetched(t)
       \/ AddGotDb(t) \/ FindGotDb(t) \/ FindFound(t) \/ UpdateModified(t) \/ ArticleRemoved(t)
       \/ CrudSaved(t) \/ FlushStep(t) \/ LookupGotDb(t) \/ LookupFound(t) \/ Reap(t)

SpecShelf == Init /\ [][NextShelf]_vars

\* the documents of a list, as a set
Listed(list) == {list[i] : i \in 1..Len(list)}

WipePressed ==
  /\ dbInstance # NoDb
  /\ \A t \in TaskIds : tasks[t].op # "wipe"
  /\ CallPermanentlyDelete

WipeStep(t) ==
  \/ WipeRemovedBusinesses(t) \/ WipeRemovedArticles(t) \/ WipeRemovedUrl(t)
  \/ WipeDestroyed(t) \/ WipeDetected(t) \/ WipeDeletedBusinesses(t)
  \/ WipeDeletedArticles(t) \/ WipeSettled(t) \/ WipeCreated(t) \/ WipeGotDb(t)

\* the network comes while a permanent deletion runs
WipeNetGained ==
  /\ \E t \in TaskIds : tasks[t].op = "wipe" /\ tasks[t].pc # "done"
  /\ ~net
  /\ NetChange

\* The app is started once, online or offline, and the user deletes all data
\* permanently; the network may come while the deletion runs.
NextWipe ==
  \/ WipeNetGained \/ FirstBoot \/ WipePressed \/ Notify
  \/ \E t \in TaskIds :
       \/ DetectStep(t) \/ StartStep(t) \/ InitStep(t) \/ ListenerStep(t)
       \/ WipeStep(t) \/ CreateRootAnswered(t) \/ CreatePutBusinesses(t)
       \/ CreatePutArticles(t) \/ Respond(t) \/ Reap(t)

SpecWipe == Init /\ [][NextWipe]_vars

\* the positions of step in a log
At(log, step) == {i \in 1..Len(log) : log[i] = step}

Deletes == {"DELETE businesses", "DELETE articles"}
Puts == {"PUT businesses", "PUT articles"}

\* C30: in a run of permanentlyDeleteAllData stopSync comes first and the
\* Durable Cache entries are removed before a DELETE is sent; a PUT is sent
\* only after both DELETEs have returned and the settle delay has elapsed after
\* them; no PUT precedes a DELETE
C30_StepsInOrder ==
  \A t \in TaskIds :
    tasks[t].op = "wipe" =>
      LET log == tasks[t].log
      IN /\ log # <<>> => log[1] = "stopSync"
         /\ \A i \in 1..Len(log) :
              log[i] \in Deletes => \E r \in At(log, "removed") : r < i
         /\ \A i \in 1..Len(log) :
              log[i] \in Puts =>
                \E b \in At(log, "businesses returned"), a \in At(log, "articles returned"),
                   s \in At(log, "settled") : b < s /\ a < s /\ s < i
         /\ \A i, j \in 1..Len(log) : log[i] \in Puts /\ log[j] \in Deletes => j < i

\* a run has sent both DELETEs and, after the delay, both PUTs
C30_Recreated ==
  \E t \in TaskIds :
    /\ tasks[t].op = "wipe"
    /\ At(tasks[t].log, "DELETE businesses") # {}
    /\ At(tasks[t].log, "DELETE articles") # {}
    /\ At(tasks[t].log, "PUT businesses") # {}
    /\ At(tasks[t].log, "PUT articles") # {}

\* ------------------------------------------------------------ session states
\* the state of the Replication Session of a collection, from the module
\* variable v of the collection: Errored and Active while the variable holds a
\* session, Starting while it holds none and a startSync is at its existence
\* checks, Stopped otherwise
SessionStateOf(v, ss, tks) ==
  IF v # 0 THEN (IF ss[v].err THEN "Errored" ELSE "Active")
  ELSE IF \E t \in TaskIds : tks[t].pc \in {"s_chkB", "s_chkA"} THEN "Starting"
  ELSE "Stopped"

\* a step from state s with session v to state s2 with session v2 that the
\* state machine allows; the stopSync() and the existence check of one
\* startSync are one step, so a session may go to Starting from any state
SessionMove(s, v, s2, v2) ==
  \/ s2 = s /\ v2 = v
  \/ s2 = "Stopped"
  \/ s2 = "Starting"
  \/ s = "Starting" /\ s2 = "Active"
  \/ s = "Active" /\ s2 = "Errored" /\ v2 = v

\* C31: the Replication Session of each collection changes state only along
\* Stopped -> Starting -> Active, Active -> Errored and any state -> Stopped
C31_SessionStateMachine ==
  [][/\ SessionMove(SessionStateOf(businessReplication, sessions, tasks), businessReplication,
                    SessionStateOf(businessReplication', sessions', tasks'), businessReplication')
     /\ SessionMove(SessionStateOf(articleReplication, sessions, tasks), articleReplication,
                    SessionStateOf(articleReplication', sessions', tasks'), articleReplication')]_vars

\* ------------------------------------------------------------ probes of one discovery
\* C32: within one detectCouchDBUrl call no URL is probed more than once (the
\* probes of the call in flight are the list the task keeps)
C32_NoUrlProbedTwice ==
  \A t \in TaskIds :
    \A i, j \in 1..Len(tasks[t].probes) :
      tasks[t].probes[i] = tasks[t].probes[j] => i = j

\* ------------------------------------------------------------ convergence
\* the flushes of the scenario do not fail: no query and no setItem of a
\* flush rejects
FlushSucceeds(t) == FlushStep(t) /\ tasks'[t].res # "failed"

\* what the program does by itself once it was started: timers run, awaited
\* promises settle, continuations run
ConvergeProgram ==
  \/ \E d \in 1..MaxDbs : TimerFlush("articles", d)
  \/ \E t \in TaskIds :
       \/ DetectGot(t) \/ DetectProbed(t) \/ DetectSaved(t)
       \/ StartStep(t) \/ InitStep(t) \/ FlushSucceeds(t)
       \/ FindGotDb(t) \/ FindFound(t) \/ UpdateModified(t) \/ CrudSaved(t)
       \/ Respond(t) \/ Reap(t)

\* The scenario of NextUpdates where no flush fails: the app is started once,
\* the articles session receives one batch and the user edits the article
\* while the flush timer of the batch is pending.
NextConverge == FirstBoot \/ ArticleReceived \/ UpdatePressed \/ ConvergeProgram

\* the event loop runs every callback that is ready: a pending timer, the
\* continuation of a settled promise
SpecConverge == Init /\ [][NextConverge]_vars /\ WF_vars(ConvergeProgram)

\* mutations and replication events have ceased: the database is there, no
\* operation is running and no flush timer is pending
Quiet ==
  /\ dbInstance # NoDb
  /\ \A t \in TaskIds : tasks[t].pc \in {"idle", "done"}
  /\ \A k \in TimerKinds : timers[k] = 0

\* the snapshot of each collection is the content of the Local Store
InSync ==
  /\ dbInstance # NoDb
  /\ \A c \in Colls : Snapshot(KeyOf(c)) = ToList(rxdb[dbInstance][c])

MaxLoad == 3

\* the records of a snapshot that was not written by this version of the app:
\* records without a primary key, records with the same id
LoadIds == 0..2
BusinessRecords == {r \in [id : LoadIds, name : Names] : r.id # 1 => r.name = 1}
ArticleRecords ==
  {[id |-> r.id, name |-> r.name, qty |-> 1, selling_price |-> 1, business_id |-> 1] :
     r \in BusinessRecords}
ListsOf(S) == UNION {[1..n -> S] : n \in 0..MaxLoad}

InitDamaged ==
  /\ net = FALSE
  /\ notifQ = <<>>
  /\ listeners = <<>>
  /\ isOnline = FALSE
  /\ syncEnabled = TRUE
  /\ currentUrl = NoUrl
  /\ dbInstance = NoDb
  /\ businessReplication = 0
  /\ articleReplication = 0
  /\ sessions = [i \in 1..MaxSessions |-> NoSession]
  /\ \E bs \in ListsOf(BusinessRecords), as \in ListsOf(ArticleRecords) :
       storage = [k \in {COUCHDB_URL_KEY, BUSINESSES_KEY, ARTICLES_KEY} |->
                    IF k = COUCHDB_URL_KEY THEN NoUrl
                    ELSE IF k = BUSINESSES_KEY THEN [present |-> TRUE, docs |-> bs]
                    ELSE [present |-> TRUE, docs |-> as]]
  /\ rxdb = [d \in 1..MaxDbs |-> NoStore]
  /\ timers = [k \in TimerKinds |-> 0]
  /\ tasks = [t \in TaskIds |-> Idle]

\* The app is started offline over a snapshot that holds records whose insert
\* fails.
NextLoad ==
  \/ FirstBoot
  \/ \E t \in TaskIds :
       \/ InitCreated(t) \/ InitLoadedBusinesses(t) \/ InitLoadedArticles(t)
       \/ InitFetched(t) \/ Reap(t)

SpecLoad == InitDamaged /\ [][NextLoad]_vars

\* the records of a list whose insert succeeds when they are inserted in turn
\* into an empty collection: the valid ones, the first of each id
Kept(docs) ==
  {docs[k] : k \in {i \in 1..Len(docs) :
                      Valid(docs[i]) /\ \A j \in 1..(i - 1) : docs[j].id # docs[i].id}}

\* loadPersistedData(db) has returned in task t
Loaded(t) ==
  /\ tasks[t].op = "init"
  /\ \/ tasks[t].pc = "i_fetch"
     \/ tasks[t].pc = "done" /\ dbInstance # NoDb

LoadedStore(t) == IF tasks[t].pc = "i_fetch" THEN rxdb[tasks[t].db] ELSE rxdb[dbInstance]

\* C34: once loadPersistedData has run, each collection holds every record of
\* its snapshot whose insert succeeds, whatever records before it failed;
\* initDatabase returns the database and raises nothing; loading the snapshot
\* once more leaves the Local Store as it is
C34_LoadSkipsFailures ==
  \A t \in TaskIds :
    Loaded(t) =>
      /\ \A c \in Colls :
           /\ LoadedStore(t)[c] = Kept(Snapshot(KeyOf(c)))
           /\ InsertAll(LoadedStore(t)[c], Snapshot(KeyOf(c))) = LoadedStore(t)[c]
      /\ tasks[t].pc = "done" => tasks[t].res = "value"

\* initDatabase has returned over a businesses snapshot whose first record has
\* no key and whose second is inserted, and an articles snapshot whose second
\* record repeats the id of the first and whose third is inserted
C34_LoadedPastFailures ==
  \E t \in TaskIds :
    /\ tasks[t].op = "init" /\ tasks[t].pc = "done" /\ tasks[t].res = "value"
    /\ Len(Snapshot(BUSINESSES_KEY)) >= 2
    /\ ~Valid(Snapshot(BUSINESSES_KEY)[1])
    /\ Snapshot(BUSINESSES_KEY)[2] \in rxdb[dbInstance].businesses
    /\ Len(Snapshot(ARTICLES_KEY)) = 3
    /\ Snapshot(ARTICLES_KEY)[1] \in rxdb[dbInstance].articles
    /\ Snapshot(ARTICLES_KEY)[2].id = Snapshot(ARTICLES_KEY)[1].id
    /\ Snapshot(ARTICLES_KEY)[2] # Snapshot(ARTICLES_KEY)[1]
    /\ Snapshot(ARTICLES_KEY)[3] \in rxdb[dbInstance].articles
    /\ Snapshot(ARTICLES_KEY)[3].id # Snapshot(ARTICLES_KEY)[1].id

\* ------------------------------------------------------------ identity of documents
IdsIn(coll) == {d.id : d \in coll}

\* no collection of any instance holds two documents of one id
UniqueIds(rx) ==
  \A d \in 1..MaxDbs : \A c \in Colls :
    \A x, y \in rx[d][c] : x.id = y.id => x = y

\* the step is the one where the modify() of the update of task t resolves
UpdateLands(t) ==
  tasks[t].op = "update" /\ tasks[t].pc = "c_mutate" /\ Moved(t)

\* C35: each collection of the Local Store holds at most one document per id
\* in every reachable state, and the step where the modify() of updateBusiness
\* or updateArticleData resolves leaves the set of ids of both collections of
\* every instance as it was
C35_IdsUniqueAndKept ==
  [][/\ UniqueIds(rxdb')
     /\ \A t \in TaskIds :
          UpdateLands(t) =>
            \A d \in 1..MaxDbs : \A c \in Colls : IdsIn(rxdb'[d][c]) = IdsIn(rxdb[d][c])]_vars

\* an update has changed an article of a collection that holds two articles
C35_UpdatedOneOfTwo ==
  \E t \in TaskIds :
    /\ tasks[t].op = "update" /\ tasks[t].pc = "fl_find"
    /\ Cardinality(rxdb[tasks[t].db].articles) = 2
    /\ tasks[t].arg \in rxdb[tasks[t].db].articles
    /\ tasks[t].arg.business_id = 2

\* ------------------------------------------------------------ creating the remote databases
\* the HTTP status a response carries: ok is a 2xx, another status is 412
\* (the database exists) or something else (here 500); a rejection has none
StatusOf(o) ==
  IF o = "ok" THEN {"201"} ELSE IF o = "status" THEN {"412", "500"} ELSE {"rejected"}

\* a pending fetch settles as in Respond; the run of createCouchDBDatabases
\* records the status of the answer (a history no step reads)
RespondStatus(t) ==
  /\ tasks[t].resp = "pending"
  /\ \E o \in Outcomes : \E code \in StatusOf(o) :
       /\ o # "error" => net
       /\ tasks' = [tasks EXCEPT ![t] =
            IF @.op = "create" THEN Logged([@ EXCEPT !.resp = o], code)
            ELSE [@ EXCEPT !.resp = o]]
  /\ UNCHANGED <<netVars, listeners, isOnline, syncEnabled, timers, currentUrl, dbInstance,
                 syncVars, storage, rxdb>>

\* BusinessScreen.js 99, 572, 617: the screen asks for the remote databases
\* once the database is there, one call at a time
CreatePressed ==
  /\ dbInstance # NoDb
  /\ \A t \in TaskIds : tasks[t].op # "create"
  /\ CallCreateDatabases

\* The app is started once and the screen calls createCouchDBDatabases().
NextCreate ==
  \/ FirstBoot \/ CreatePressed
  \/ \E t \in TaskIds :
       \/ DetectGot(t) \/ DetectProbed(t) \/ DetectSaved(t)
       \/ StartStep(t) \/ InitStep(t)
       \/ CreateDetected(t) \/ CreateRootAnswered(t) \/ CreatePutBusinesses(t)
       \/ CreatePutArticles(t) \/ RespondStatus(t) \/ Reap(t)

SpecCreate == Init /\ [][NextCreate]_vars

\* the answers the run got to the requests it logged as step
AnswersTo(log, step) == {log[i + 1] : i \in {j \in At(log, step) : j < Len(log)}}

\* C36: createCouchDBDatabases reports success only when each of its two PUTs
\* was answered with an ok status or with 412
C36_SuccessNeedsBothPuts ==
  [][\A t \in TaskIds :
       /\ tasks[t].op = "create" /\ tasks[t].pc = "k_putA" /\ Moved(t)
       /\ tasks'[t].res = "success"
       => AnswersTo(tasks[t].log, "PUT businesses") \cup AnswersTo(tasks[t].log, "PUT articles")
            \subseteq {"201", "412"}]_vars

\* ------------------------------------------------------------ orphans
\* the persisted snapshot of a previous run that had one business and one
\* article of it
InitOrphan ==
  /\ net = FALSE
  /\ notifQ = <<>>
  /\ listeners = <<>>
  /\ isOnline = FALSE
  /\ syncEnabled = TRUE
  /\ currentUrl = NoUrl
  /\ dbInstance = NoDb
  /\ businessReplication = 0
  /\ articleReplication = 0
  /\ sessions = [i \in 1..MaxSessions |-> NoSession]
  /\ storage = [k \in {COUCHDB_URL_KEY, BUSINESSES_KEY, ARTICLES_KEY} |->
                  IF k = COUCHDB_URL_KEY THEN NoUrl
                  ELSE IF k = BUSINESSES_KEY THEN [present |-> TRUE, docs |-> Docs(1)]
                  ELSE [present |-> TRUE, docs |-> <<Article1>>]]
  /\ rxdb = [d \in 1..MaxDbs |-> NoStore]
  /\ timers = [k \in TimerKinds |-> 0]
  /\ tasks = [t \in TaskIds |-> Idle]

\* BusinessScreen.js 340, 288, ArticleScreen.js 74: the user deletes a business
\* the screen lists or adds one, and the article screen lists the articles of
\* a business
OrphanPressed ==
  /\ dbInstance # NoDb
  /\ \/ \E id \in Ids : CallDeleteBusiness(dbInstance, id)
     \/ \E doc \in BusinessDocs : CallAdd("businesses", doc)
     \/ \E b \in Ids : CallLookup("getArticlesByBusinessId", b)

\* The app is started once, offline, over a cache with a business and its
\* article; the user deletes and adds businesses and lists articles.
NextOrphan ==
  \/ FirstBoot \/ OrphanPressed
  \/ \E t \in TaskIds :
       \/ InitCreated(t) \/ InitLoadedBusinesses(t) \/ InitLoadedArticles(t) \/ InitFetched(t)
       \/ BusinessRemoved(t) \/ BusinessDeleteGotDb(t) \/ AddGotDb(t) \/ CrudSaved(t)
       \/ FlushStep(t) \/ LookupGotDb(t) \/ LookupFound(t) \/ Reap(t)

SpecOrphan == InitOrphan /\ [][NextOrphan]_vars

\* C37: no step of deleteBusiness changes the articles of the Local Store or
\* the articles snapshot of the Durable Cache, and a listing of the articles
\* of a business that is no longer in the Local Store returns the articles
\* that name it
C37_DeleteBusinessKeepsArticles ==
  [][\A t \in TaskIds :
       /\ (tasks[t].op = "deleteBusiness" /\ Moved(t))
            => (/\ \A d \in 1..MaxDbs : rxdb'[d].articles = rxdb[d].articles
                /\ storage'[ARTICLES_KEY] = storage[ARTICLES_KEY])
       /\ (/\ tasks[t].op = "getArticlesByBusinessId" /\ tasks[t].pc = "q_find" /\ Moved(t)
           /\ tasks'[t].res = "value"
           /\ Found(rxdb[tasks[t].db].businesses, tasks[t].arg) = {})
            => Listed(tasks'[t].snap) =
                 {a \in rxdb[tasks[t].db].articles : a.business_id = tasks[t].arg.id}]_vars

\* the business was deleted, the deletion is in the Durable Cache, and the
\* listing of its articles has returned the orphan
C37_OrphanListed ==
  \E u \in TaskIds :
    /\ tasks[u].op = "getArticlesByBusinessId" /\ tasks[u].pc = "done"
    /\ tasks[u].snap = <<Article1>>
    /\ rxdb[dbInstance].businesses = {}
    /\ storage[BUSINESSES_KEY] = [present |-> TRUE, docs |-> <<>>]
    /\ storage[ARTICLES_KEY] = [present |-> TRUE, docs |-> <<Article1>>]
    /\ rxdb[dbInstance].articles = {Article1}

\* C38: once initDatabase has completed, a connectivity listener is registered
\* for the instance it returned, whatever discovery and the initial startSync
\* did
C38_ListenerAfterInit ==
  dbInstance # NoDb => \E i \in 1..Len(listeners) : listeners[i] = dbInstance

\* C39: while sync is disabled no replication session is active: none is held
\* by the session variables and none runs
C39_NoSessionWhileDisabled ==
  ~syncEnabled =>
    /\ businessReplication = 0 /\ articleReplication = 0
    /\ \A i \in 1..MaxSessions : sessions[i] = NoSession

\* ------------------------------------------------------------ forced sync
\* BusinessScreen.js 598: the user switches sync off once the database is there
DisablePressed ==
  /\ dbInstance # NoDb
  /\ syncEnabled
  /\ CallSetSyncEnabled(FALSE)

\* the Sync Now button, pressed once the database is there, one call at a time
ForcePressed ==
  /\ dbInstance # NoDb
  /\ \A t \in TaskIds : tasks[t].op # "force"
  /\ CallForceSyncNow

\* The app is started once; the user may switch sync off and presses Sync Now.
NextForce ==
  \/ FirstBoot \/ DisablePressed \/ ForcePressed
  \/ \E t \in TaskIds :
       \/ DetectGot(t) \/ DetectProbed(t) \/ DetectSaved(t)
       \/ StartStep(t) \/ InitStep(t) \/ ForceStep(t)
       \/ Respond(t) \/ Reap(t)

SpecForce == Init /\ [][NextForce]_vars

\* C40: forceSyncNow returns success only when the startSync it awaited has
\* created the two sessions
C40_SuccessMeansStarted ==
  [][\A t \in TaskIds :
       (tasks[t].op = "force" /\ tasks[t].pc = "f_synced" /\ Moved(t)
          /\ tasks'[t].res = "success")
         => tasks[t].res = "started"]_vars
====
